---- MODULE Spec2Model ----
(***************************************************************************)
(* ScrollXiv: paper store, arXiv ingestion, feed paging and enrichment     *)
(* routes, modelled as a state machine.                                    *)
(*                                                                         *)
(* Conventions                                                             *)
(*  - a nullable column or optional value is a sequence of length 0 (NULL  *)
(*    / undefined) or 1 (the value);                                       *)
(*  - a text is a sequence of string tokens (" " is a whitespace token);   *)
(*  - a JSON-encoded column is the pair <<"json", value>>;                 *)
(*  - the internal id of a Paper row is its position in the table;         *)
(*  - the createdAt / updatedAt timestamps are left out.                   *)
(***************************************************************************)
EXTENDS Integers, Sequences, FiniteSets, TLC

\* ------------------------------------------------------------------ bounds
NumBase == 3
MaxVersion == 2
NumRev == 2
MaxPapers == 3
FeedLimit == 2
MaxBatch == 3
NumCalls == 2
NumReplies == 2
MaxBlocks == 3
NumRequests == 2
MaxLines == 2

VARIABLES papers, seenPaper, savedPaper, lastUpsert, feed,
          envFile, processEnv, calls, probe, request, history, client

vars == <<papers, seenPaper, savedPaper, lastUpsert, feed,
          envFile, processEnv, calls, probe, request, history, client>>

envVars == <<envFile, processEnv>>

\* probe: a function of the services with the input it is applied to and its
\* result; request: the last request to one of the routes that answer in
\* one step, with its response; history: per paper the last save/unsave and
\* discard/undiscard action (ghost).
auxVars == <<probe, request, history, client>>

Null == <<>>
Some(v) == <<v>>

Min(S) == CHOOSE x \in S : \A y \in S : x <= y

\* ------------------------------------------------------------- JSON codec
JSONstringify(v) == <<"json", v>>
JSONparse(t) == t[2]

\* ----------------------------------------------------------- arxiv.ts
RECURSIVE collapseWs(_)
collapseWs(t) ==
  IF Len(t) <= 1 THEN t
  ELSE IF t[1] = " " /\ t[2] = " " THEN collapseWs(Tail(t))
  ELSE <<t[1]>> \o collapseWs(Tail(t))

trimWs(t) ==
  LET a == IF Len(t) > 0 /\ t[1] = " " THEN Tail(t) ELSE t
  IN IF Len(a) > 0 /\ a[Len(a)] = " " THEN SubSeq(a, 1, Len(a) - 1) ELSE a

cleanText(text) == trimWs(collapseWs(text))

\* url.match(/abs\/(.+)$/): everything after the leftmost "abs/" that is
\* followed by at least one character; the url itself when there is none.
extractArxivId(url) ==
  LET pos == {i \in 1..(Len(url) - 1) : url[i] = "abs/"}
  IN IF pos = {} THEN url ELSE SubSeq(url, Min(pos) + 1, Len(url))

pdfLinkOf(links) ==
  LET pos == {i \in 1..Len(links) : links[i].title = "pdf"}
  IN IF pos = {} THEN Null ELSE Some(links[Min(pos)])

parseEntry(entry) ==
  LET id == entry.id[1]
      arxivId == extractArxivId(id)
      pdfLink == pdfLinkOf(entry.link)
  IN [arxivId |-> arxivId,
      title |-> cleanText(entry.title[1]),
      authors |-> [i \in 1..Len(entry.author) |-> entry.author[i].name[1]],
      abstract |-> cleanText(entry.summary[1]),
      categories |-> [i \in 1..Len(entry.category) |-> entry.category[i].term],
      publishedDate |-> entry.published[1],
      pdfUrl |-> IF pdfLink # Null THEN pdfLink[1].href
                 ELSE <<"https://arxiv.org/pdf/">> \o arxivId]

\* The entries the arXiv API can answer with: paper b in revision v, its
\* metadata as of content state r.  The <id> of an entry carries the
\* revision suffix; <published> is the date of the first revision.
ArxivEntry(b, v, r) ==
  [id |-> << <<"http://arxiv.org/", "abs/", "2401.0000", ToString(b), "v", ToString(v)>> >>,
   title |-> << <<" ", "Title", " ", " ", ToString(b), " ", ToString(v + 10 * r), " ">> >>,
   summary |-> << <<"Abstract", " ", " ", ToString(v + 10 * r)>> >>,
   author |-> [i \in 1..r |-> [name |-> << <<"Author", ToString(i)>> >>]],
   published |-> <<((b + 1) \div 2) + r - 1>>,
   category |-> [i \in 1..r |-> [term |-> IF i = 1 THEN "cs.AI" ELSE "cs.LG"]],
   link |-> IF r = 1
            THEN << [href |-> <<"http://arxiv.org/abs/", ToString(b)>>, title |-> "alternate"],
                    [href |-> <<"http://arxiv.org/pdf/", ToString(b), ToString(v)>>, title |-> "pdf"] >>
            ELSE << [href |-> <<"http://arxiv.org/abs/", ToString(b)>>, title |-> "alternate"] >>]

ArxivEntries(versions, revs) ==
  {ArxivEntry(b, v, r) : b \in 1..NumBase, v \in versions, r \in revs}

\* ------------------------------------------------------ ai.ts: env
EnvKeys == {"AI_PROVIDER", "ANTHROPIC_API_KEY", "OPENAI_API_KEY"}

NoEnv == [key \in EnvKeys |-> Null]

\* The settings the server is started with: the README's .env with a Claude
\* key; nothing set anywhere; provider and an unused key in .env with the
\* OpenAI key in the process environment.
EnvConfigs ==
  << [file |-> [NoEnv EXCEPT !["AI_PROVIDER"] = Some(<<"claude">>),
                             !["ANTHROPIC_API_KEY"] = Some(<<"sk-ant">>)],
      process |-> NoEnv],
     [file |-> NoEnv, process |-> NoEnv],
     [file |-> [NoEnv EXCEPT !["AI_PROVIDER"] = Some(<<"OpenAI">>),
                             !["ANTHROPIC_API_KEY"] = Some(<<>>)],
      process |-> [NoEnv EXCEPT !["OPENAI_API_KEY"] = Some(<<"sk-oa">>)]] >>

\* JavaScript truthiness of a string | null | undefined.
Truthy(opt) == opt # Null /\ opt[1] # <<>>

\* envFile[key] || process.env[key]
getEnv(key) == IF Truthy(envFile[key]) THEN envFile[key] ELSE processEnv[key]

toLowerCase(text) ==
  [i \in 1..Len(text) |->
     IF text[i] = "OpenAI" THEN "openai"
     ELSE IF text[i] = "Claude" THEN "claude" ELSE text[i]]

getProvider ==
  LET raw == getEnv("AI_PROVIDER")
      provider == IF raw # Null /\ toLowerCase(raw[1]) # <<>>
                  THEN toLowerCase(raw[1]) ELSE <<"claude">>
  IN IF provider = <<"openai">> THEN "openai" ELSE "claude"

isAIConfigured ==
  IF getProvider = "openai" THEN Truthy(getEnv("OPENAI_API_KEY"))
  ELSE Truthy(getEnv("ANTHROPIC_API_KEY"))

\* ------------------------------------------------- ai.ts: provider replies
\* A reply text is a sequence of tokens: a code fence, a well-formed JSON
\* document or other text.  A JSON value is null or an object whose absent
\* members are Null.
Fence == [t |-> "fence"]
JsonDoc(value) == [t |-> "json", v |-> value]
OtherText == [t |-> "text"]
JsonNull == [kind |-> "null"]
JsonObject(fields) == [kind |-> "object", fields |-> fields]

notFence(tok) == tok.t # "fence"

\* text.replace(/```json\n?/g, "").replace(/```\n?/g, "").trim(), JSON.parse
parseJSON(text) ==
  LET cleaned == SelectSeq(text, notFence)
  IN IF Len(cleaned) = 1 /\ cleaned[1].t = "json"
     THEN [ok |-> TRUE, value |-> cleaned[1].v]
     ELSE [ok |-> FALSE]

\* callAI: the provider call throws, or returns the reply text.
Threw == [ok |-> FALSE]
Replied(text) == [ok |-> TRUE, text |-> text]

\* summarizePaper / generateDeepSummary / the parse inside selectBestFigure:
\* parseJSON(await callAI(prompt)).
parsedReply(outcome) == IF outcome.ok THEN parseJSON(outcome.text) ELSE [ok |-> FALSE]

Omit(obj, names) == [f \in DOMAIN obj |-> IF f \in names THEN Null ELSE obj[f]]

SummaryOf(r) ==
  [hook |-> Some(<<"hook", ToString(r)>>),
   keyConcepts |-> Some(<< <<"concept", ToString(r)>> >>),
   summary |-> Some(<<"summary", ToString(r)>>),
   whyMatters |-> Some(<<"why", ToString(r)>>)]

SummarizeOutcomes ==
  {Threw, Replied(<<OtherText>>), Replied(<<JsonDoc(JsonNull)>>)}
  \cup {Replied(<<JsonDoc(JsonObject(SummaryOf(r)))>>) : r \in 1..NumReplies}
  \cup {Replied(<<Fence, JsonDoc(JsonObject(SummaryOf(r))), Fence>>) : r \in 1..NumReplies}
  \cup {Replied(<<JsonDoc(JsonObject(Omit(SummaryOf(r), {"keyConcepts", "summary", "whyMatters"})))>>) :
          r \in 1..NumReplies}
  \cup {Replied(<<JsonDoc(JsonObject([SummaryOf(r) EXCEPT !.hook = Some(<<>>)]))>>) :
          r \in 1..NumReplies}

DeepSummaryOf(r) ==
  [category |-> Some(<<"category", ToString(r)>>),
   problem |-> Some(<<"problem", ToString(r)>>),
   contributions |-> Some(<< <<"contribution", ToString(r)>> >>),
   technicalApproach |-> Some(<<"approach", ToString(r)>>),
   priorWork |-> Some(<<"prior", ToString(r)>>),
   evaluation |-> Some(<<"evaluation", ToString(r)>>),
   strengths |-> Some(<< <<"strength", ToString(r)>> >>),
   limitations |-> Some(<< <<"limitation", ToString(r)>> >>),
   implications |-> Some(<<"implications", ToString(r)>>),
   figureAnalysis |-> Some(<<>>)]

DeepSummaryOutcomes ==
  {Threw, Replied(<<OtherText>>), Replied(<<JsonDoc(JsonNull)>>)}
  \cup {Replied(<<JsonDoc(JsonObject(DeepSummaryOf(r)))>>) : r \in 1..NumReplies}
  \cup {Replied(<<Fence, JsonDoc(JsonObject(DeepSummaryOf(r))), Fence>>) : r \in 1..NumReplies}
  \cup {Replied(<<JsonDoc(JsonObject(Omit(DeepSummaryOf(r), DOMAIN DeepSummaryOf(r) \ {"category"})))>>) :
          r \in 1..NumReplies}

\* --------------------------------------------------------- figures.ts
\* arxivId.replace(/v\d+$/, "")
IsDigits(tok) == tok \in {ToString(n) : n \in 0..9}

cleanId(arxivId) ==
  IF Len(arxivId) >= 2 /\ arxivId[Len(arxivId) - 1] = "v" /\ IsDigits(arxivId[Len(arxivId)])
  THEN SubSeq(arxivId, 1, Len(arxivId) - 2)
  ELSE arxivId

\* An html document is the sequence of its <figure class="ltx_figure">
\* blocks: the src of the first <img> (if any) and the content of the first
\* <figcaption> (if any).  Tokens "<b>" and "</b>" stand for html tags.
HtmlTags == {"<b>", "</b>"}

\* html.replace(/<[^>]+>/g, " ").replace(/\s+/g, " ").trim()
stripHtml(html) ==
  cleanText([i \in 1..Len(html) |-> IF html[i] \in HtmlTags THEN " " ELSE html[i]])

absoluteUrl(imgUrl, arxivId) ==
  IF imgUrl[1] = "/" THEN <<"https://ar5iv.labs.arxiv.org">> \o imgUrl
  ELSE IF imgUrl[1] \notin {"http://", "https://"}
       THEN <<"https://ar5iv.labs.arxiv.org/html/">> \o arxivId \o <<"/">> \o imgUrl
       ELSE imgUrl

\* The loop of parseFiguresFromHtml over the remaining blocks, index being
\* the number the next figure gets.  The alt group of imgRegex follows a
\* greedy [^>]* and never captures, so alt stays undefined.
RECURSIVE parseBlocks(_, _, _)
parseBlocks(blocks, arxivId, index) ==
  IF blocks = <<>> THEN <<>>
  ELSE LET block == Head(blocks)
       IN IF block.img # Null
          THEN << [url |-> absoluteUrl(block.img[1], arxivId),
                   caption |-> trimWs(IF block.caption # Null
                                      THEN stripHtml(block.caption[1])
                                      ELSE <<"Figure ", ToString(index)>>),
                   index |-> index] >>
               \o parseBlocks(Tail(blocks), arxivId, index + 1)
          ELSE parseBlocks(Tail(blocks), arxivId, index)

\* Faulty variant of the parser: every block consumes an index.
RECURSIVE parseBlocksCountingAll(_, _, _)
parseBlocksCountingAll(blocks, arxivId, index) ==
  IF blocks = <<>> THEN <<>>
  ELSE LET block == Head(blocks)
       IN IF block.img # Null
          THEN << [url |-> absoluteUrl(block.img[1], arxivId),
                   caption |-> trimWs(IF block.caption # Null
                                      THEN stripHtml(block.caption[1])
                                      ELSE <<"Figure ", ToString(index)>>),
                   index |-> index] >>
               \o parseBlocksCountingAll(Tail(blocks), arxivId, index + 1)
          ELSE parseBlocksCountingAll(Tail(blocks), arxivId, index + 1)

parseFiguresFromHtmlCountingAll(html, arxivId) == parseBlocksCountingAll(html, arxivId, 1)

parseFiguresFromHtml(html, arxivId) == parseBlocks(html, arxivId, 1)

\* What the fetch of the ar5iv page can do.
FetchThrew(message) == [kind |-> "throw", message |-> message]
FetchThrewValue == [kind |-> "throwValue"]
FetchStatus(status, html) == [kind |-> "response", status |-> status, html |-> html]

\* Faulty variant of the extractor: a failed fetch escapes the function.
extractFiguresFromAr5ivRethrows(arxivId, fetched) ==
  IF fetched.kind \in {"throw", "throwValue"}
  THEN [threw |-> TRUE]
  ELSE IF fetched.status \notin 200..299
       THEN IF fetched.status = 404
            THEN [figures |-> <<>>, error |-> Some(<<"ar5iv rendering not available">>)]
            ELSE [figures |-> <<>>, error |-> Some(<<"ar5iv returned ", ToString(fetched.status)>>)]
       ELSE [figures |-> parseFiguresFromHtml(fetched.html, cleanId(arxivId)),
             error |-> Null]

extractFiguresFromAr5iv(arxivId, fetched) ==
  IF fetched.kind = "throw"
  THEN [figures |-> <<>>, error |-> Some(fetched.message)]
  ELSE IF fetched.kind = "throwValue"
  THEN [figures |-> <<>>, error |-> Some(<<"Failed to fetch ar5iv">>)]
  ELSE IF fetched.status \notin 200..299
       THEN IF fetched.status = 404
            THEN [figures |-> <<>>, error |-> Some(<<"ar5iv rendering not available">>)]
            ELSE [figures |-> <<>>, error |-> Some(<<"ar5iv returned ", ToString(fetched.status)>>)]
       ELSE [figures |-> parseFiguresFromHtml(fetched.html, cleanId(arxivId)),
             error |-> Null]

\* Pages of one figure and of two figures around a block without image.
Ar5ivPage1 ==
  << [img |-> Some(<<"https://", "cdn/x1.png">>),
      caption |-> Some(<<"<b>", "Overview", "</b>", " ", "diagram">>)] >>

Ar5ivPage3 ==
  << [img |-> Some(<<"/", "html/x1.png">>), caption |-> Some(<<"Architecture">>)],
     [img |-> Null, caption |-> Some(<<"Table">>)],
     [img |-> Some(<<"x2.png">>), caption |-> Null] >>

\* ------------------------------------------------ ai.ts: selectBestFigure
withReason(figure, reason) ==
  [url |-> figure.url, caption |-> figure.caption, index |-> figure.index,
   reason |-> reason]

\* selectBestFigure after the figures.length === 0 return: the provider
\* outcome parsed, then the index test and the spread of figures[index - 1]
\* (the spread of undefined adds no member).  threw is the exception path.
selectBestFigure(figures, outcome) ==
  LET parsed == parsedReply(outcome)
  IN IF figures = <<>> THEN [threw |-> FALSE, value |-> Null]
     ELSE IF ~parsed.ok \/ parsed.value = JsonNull THEN [threw |-> TRUE]
     ELSE LET result == parsed.value.fields
          IN IF result.selectedIndex # Null
                /\ (result.selectedIndex[1] = 0 \/ result.selectedIndex[1] > Len(figures))
             THEN [threw |-> FALSE, value |-> Null]
             ELSE IF result.selectedIndex # Null /\ result.selectedIndex[1] \in 1..Len(figures)
                  THEN [threw |-> FALSE,
                        value |-> Some(withReason(figures[result.selectedIndex[1]],
                                                  result.reason))]
                  ELSE [threw |-> FALSE, value |-> Some([reason |-> result.reason])]

SelectReply(index) ==
  Replied(<<JsonDoc(JsonObject([selectedIndex |-> index, reason |-> Some(<<"why">>)]))>>)

SelectOutcomes(indexes) ==
  {Threw, Replied(<<OtherText>>), Replied(<<JsonDoc(JsonNull)>>), SelectReply(Null)}
  \cup {SelectReply(Some(i)) : i \in indexes}

\* ------------------------------------------------------------ papers.ts
toPaper(dbPaper) ==
  [id |-> dbPaper.id,
   arxivId |-> dbPaper.arxivId,
   title |-> dbPaper.title,
   authors |-> JSONparse(dbPaper.authors),
   abstract |-> dbPaper.abstract,
   categories |-> JSONparse(dbPaper.categories),
   publishedDate |-> dbPaper.publishedDate,
   pdfUrl |-> dbPaper.pdfUrl,
   hook |-> dbPaper.hook,
   keyConcepts |-> IF dbPaper.keyConcepts # Null
                   THEN Some(JSONparse(dbPaper.keyConcepts[1])) ELSE Null,
   summary |-> dbPaper.summary,
   whyMatters |-> dbPaper.whyMatters,
   deepSummary |-> IF dbPaper.deepSummary # Null
                        /\ JSONparse(dbPaper.deepSummary[1]) # JsonNull
                   THEN Some(JSONparse(dbPaper.deepSummary[1])) ELSE Null,
   figures |-> IF dbPaper.figures # Null
               THEN Some(JSONparse(dbPaper.figures[1])) ELSE Null,
   selectedFigure |-> IF dbPaper.selectedFigure # Null
                      THEN Some(JSONparse(dbPaper.selectedFigure[1])) ELSE Null,
   figuresError |-> dbPaper.figuresError]

\* Rows of the Paper table matching a unique-key lookup.
findByArxivId(db, arxivId) == {i \in 1..Len(db) : db[i].arxivId = arxivId}

\* Faulty variant of the upsert: a create whatever the table holds.
upsertRowAlwaysCreates(db, arxivPaper) ==
  Append(db,
    [id |-> Len(db) + 1,
     arxivId |-> arxivPaper.arxivId,
     title |-> arxivPaper.title,
     authors |-> JSONstringify(arxivPaper.authors),
     abstract |-> arxivPaper.abstract,
     categories |-> JSONstringify(arxivPaper.categories),
     publishedDate |-> arxivPaper.publishedDate,
     pdfUrl |-> arxivPaper.pdfUrl,
     hook |-> Null, keyConcepts |-> Null, summary |-> Null,
     whyMatters |-> Null, deepSummary |-> Null, figures |-> Null,
     selectedFigure |-> Null, figuresError |-> Null])

\* Faulty variant of the upsert: the update clears the summary columns.
upsertRowClearsSummary(db, arxivPaper) ==
  LET hit == findByArxivId(db, arxivPaper.arxivId)
  IN IF hit # {}
     THEN [db EXCEPT ![Min(hit)] =
             [@ EXCEPT !.title = arxivPaper.title,
                       !.authors = JSONstringify(arxivPaper.authors),
                       !.abstract = arxivPaper.abstract,
                       !.categories = JSONstringify(arxivPaper.categories),
                       !.publishedDate = arxivPaper.publishedDate,
                       !.pdfUrl = arxivPaper.pdfUrl,
                       !.hook = Null, !.summary = Null]]
     ELSE upsertRowAlwaysCreates(db, arxivPaper)

\* prisma.paper.upsert({ where: { arxivId }, update: {...}, create: {...} })
upsertRow(db, arxivPaper) ==
  LET hit == findByArxivId(db, arxivPaper.arxivId)
  IN IF hit # {}
     THEN [db EXCEPT ![Min(hit)] =
             [@ EXCEPT !.title = arxivPaper.title,
                       !.authors = JSONstringify(arxivPaper.authors),
                       !.abstract = arxivPaper.abstract,
                       !.categories = JSONstringify(arxivPaper.categories),
                       !.publishedDate = arxivPaper.publishedDate,
                       !.pdfUrl = arxivPaper.pdfUrl]]
     ELSE Append(db,
            [id |-> Len(db) + 1,
             arxivId |-> arxivPaper.arxivId,
             title |-> arxivPaper.title,
             authors |-> JSONstringify(arxivPaper.authors),
             abstract |-> arxivPaper.abstract,
             categories |-> JSONstringify(arxivPaper.categories),
             publishedDate |-> arxivPaper.publishedDate,
             pdfUrl |-> arxivPaper.pdfUrl,
             hook |-> Null, keyConcepts |-> Null, summary |-> Null,
             whyMatters |-> Null, deepSummary |-> Null, figures |-> Null,
             selectedFigure |-> Null, figuresError |-> Null])

\* The capacity of the modelled table: a create needs a free row.
canUpsert(db, arxivPaper) ==
  findByArxivId(db, arxivPaper.arxivId) # {} \/ Len(db) < MaxPapers

\* upsertPaper: one atomic upsert, returning toPaper of the written row.
upsertPaper(arxivPaper) ==
  /\ canUpsert(papers, arxivPaper)
  /\ papers' = upsertRow(papers, arxivPaper)
  /\ lastUpsert' =
       Some([arg |-> arxivPaper,
             result |-> toPaper(papers'[Min(findByArxivId(papers', arxivPaper.arxivId))])])
  /\ UNCHANGED <<seenPaper, savedPaper, feed, envVars, calls, auxVars>>

getPaperById(id) ==
  IF id \in 1..Len(papers) THEN Some(toPaper(papers[id])) ELSE Null

\* prisma.paper.update({ where: { id }, data: { hook, keyConcepts, summary,
\* whyMatters } }): an undefined member of data leaves its column alone.
updatePaperSummaryRow(db, id, summary) ==
  [db EXCEPT ![id] =
     [@ EXCEPT !.hook = IF summary.hook # Null THEN summary.hook ELSE @,
               !.keyConcepts = IF summary.keyConcepts # Null
                               THEN Some(JSONstringify(summary.keyConcepts[1])) ELSE @,
               !.summary = IF summary.summary # Null THEN summary.summary ELSE @,
               !.whyMatters = IF summary.whyMatters # Null THEN summary.whyMatters ELSE @]]

\* prisma.paper.update({ where: { id }, data: { deepSummary: JSON.stringify(..) } })
updatePaperDeepSummaryRow(db, id, deepSummary) ==
  [db EXCEPT ![id] = [@ EXCEPT !.deepSummary = Some(JSONstringify(deepSummary))]]

\* Faulty variant of the update: the figures column is written only when no
\* error is given.
updatePaperFiguresRowErrorOnly(db, id, figures, selectedFigure, error) ==
  [db EXCEPT ![id] =
     [@ EXCEPT !.figures = IF Truthy(error) THEN @ ELSE Some(JSONstringify(figures)),
               !.selectedFigure = IF selectedFigure # Null
                                  THEN Some(JSONstringify(selectedFigure[1])) ELSE Null,
               !.figuresError = IF Truthy(error) THEN error ELSE Null]]

\* prisma.paper.update({ where: { id }, data: { figures, selectedFigure,
\* figuresError } })
updatePaperFiguresRow(db, id, figures, selectedFigure, error) ==
  [db EXCEPT ![id] =
     [@ EXCEPT !.figures = Some(JSONstringify(figures)),
               !.selectedFigure = IF selectedFigure # Null
                                  THEN Some(JSONstringify(selectedFigure[1])) ELSE Null,
               !.figuresError = IF Truthy(error) THEN error ELSE Null]]

\* ------------------------------------------------------------------ Init
\* An enrichment call in flight: which route, where it stands, its paperId
\* and its response once it has answered.  reply is a ghost field: what the
\* generation provider did for the call, when it was consulted.
CallIdle ==
  [op |-> "none", pc |-> "idle", paperId |-> Null, response |-> Null, reply |-> Null]

\* The feed request in flight.  stillSeen, fetches, fetched and upstream are
\* ghost fields: the marks present when the request arrived and not deleted
\* since, the number of arXiv fetches, the parsed papers fetched and the
\* HTTP status of a fetch that failed.
DEFAULT_CATEGORIES == <<"cs.AI", "cs.LG", "cs.CL", "cs.CV", "stat.ML">>

FeedIdle ==
  [pc |-> "idle", cursor |-> Null, refresh |-> FALSE,
   categories |-> DEFAULT_CATEGORIES, pending |-> {},
   seenIds |-> {}, response |-> Null,
   stillSeen |-> {}, fetches |-> 0, fetched |-> {}, upstream |-> Null]

NoProbe == [fn |-> "none"]
NoRequest ==
  [route |-> "none", pc |-> "idle", id |-> 0, action |-> Null, query |-> Null,
   paper |-> Null, saved |-> FALSE, searchQuery |-> Null, categories |-> Null,
   sortBy |-> "relevance", explanation |-> Null, sent |-> Null,
   pending |-> {}, upserted |-> {}, response |-> Null, reply |-> Null,
   removed |-> "none"]

\* The browser: the PaperCard components, none mounted.  committed holds the
\* props and the paper of the last committed render, from which React takes
\* the previous dependencies of the effects.
NoCard ==
  [mounted |-> FALSE, isActive |-> FALSE, shouldPrefetch |-> FALSE,
   summarizedPaper |-> [hook |-> Null, selectedFigure |-> Null, figuresError |-> Null],
   isSummarizing |-> FALSE, isFetchingFigures |-> FALSE,
   summarizing |-> 0, fetching |-> 0,
   committed |-> Null]
\* The card in view and a card after it.
Cards == {"active", "next"}
\* A reader of the feed who follows nextCursor: the ids of the papers of the
\* pages received so far and the cursor of the next request.
NoWalk == [pc |-> "idle", cursor |-> Null, shown |-> <<>>]
\* ScrollFeed before the home page has loaded its first page: the ids of its
\* papers, its state and the loadMore requests in flight, with the cursor
\* each was sent with.
NoScroll ==
  [mounted |-> FALSE, papers |-> <<>>, isLoading |-> FALSE, cursor |-> Null,
   hasMore |-> TRUE, loading |-> 0, sent |-> Null]
NoClient ==
  [cards |-> [k \in Cards |-> NoCard], walk |-> NoWalk, scroll |-> NoScroll]

NoHistory == [id \in 1..MaxPapers |-> [save |-> "none", discard |-> "none"]]

InitStore ==
  /\ papers = <<>>
  /\ seenPaper = {}
  /\ savedPaper = {}
  /\ lastUpsert = Null
  /\ feed = FeedIdle
  /\ calls = [c \in 1..NumCalls |-> CallIdle]
  /\ request = [q \in 1..NumRequests |-> NoRequest]
  /\ history = NoHistory
  /\ client = NoClient

Init ==
  /\ InitStore
  /\ envFile = EnvConfigs[1].file
  /\ processEnv = EnvConfigs[1].process
  /\ probe = NoProbe

\* ------------------------------------------------- seen / saved marks
getSeenPaperIds == {m.paperId : m \in seenPaper}

isPaperSeen(paperId) == \E m \in seenPaper : m.paperId = paperId

isPaperDiscarded(paperId) == \E m \in seenPaper : m.paperId = paperId /\ m.discarded

isPaperSaved(paperId) == paperId \in savedPaper

\* Ghost bookkeeping of the feed request in flight: a mark deleted while it
\* runs no longer counts as present since the request arrived.
noteUnmark(f, paperId) == [f EXCEPT !.stillSeen = @ \ {paperId}]

\* Faulty variant of markPaperAsSeen: the update resets the flag.
seenRowsResetsFlag(marks, paperId) ==
  {m \in marks : m.paperId # paperId} \cup {[paperId |-> paperId, discarded |-> FALSE]}

\* The SeenPaper and SavedPaper tables after each of the mark operations.
seenRows(marks, paperId) ==
  IF \E m \in marks : m.paperId = paperId THEN marks
  ELSE marks \cup {[paperId |-> paperId, discarded |-> FALSE]}

discardedRows(marks, paperId) ==
  {m \in marks : m.paperId # paperId} \cup {[paperId |-> paperId, discarded |-> TRUE]}

\* Faulty variant of the delete: the mark stays and its flag is reset.
unmarkedRowsKeepsMark(marks, paperId) ==
  {IF m.paperId = paperId THEN [m EXCEPT !.discarded = FALSE] ELSE m : m \in marks}

unmarkedRows(marks, paperId) == {m \in marks : m.paperId # paperId}

\* prisma.savedPaper.upsert({ where: { paperId }, update: {}, create: { paperId } })
savedRows(saved, paperId) == saved \cup {paperId}

\* prisma.savedPaper.deleteMany({ where: { paperId } })
unsavedRows(saved, paperId) == saved \ {paperId}

\* prisma.seenPaper.upsert({ where, update: {}, create: { discarded: false } })
markPaperAsSeen(paperId) ==
  /\ paperId \in 1..Len(papers)
  /\ seenPaper' = seenRows(seenPaper, paperId)
  /\ UNCHANGED <<papers, savedPaper, lastUpsert, feed, envVars, calls, auxVars>>

\* prisma.seenPaper.upsert({ where, update: { discarded: true }, create: {...} })
markPaperAsDiscarded(paperId) ==
  /\ paperId \in 1..Len(papers)
  /\ seenPaper' = discardedRows(seenPaper, paperId)
  /\ UNCHANGED <<papers, savedPaper, lastUpsert, feed, envVars, calls, auxVars>>

\* prisma.seenPaper.deleteMany({ where: { paperId } })
unmarkPaperAsSeen(paperId) ==
  /\ paperId \in 1..Len(papers)
  /\ seenPaper' = unmarkedRows(seenPaper, paperId)
  /\ feed' = noteUnmark(feed, paperId)
  /\ UNCHANGED <<papers, savedPaper, lastUpsert, envVars, calls, auxVars>>

\* ------------------------------------------------------- getFeedPapers
\* ORDER BY publishedDate DESC; rows of equal date come in table order.
comesBefore(db, i, j) ==
  \/ db[i].publishedDate > db[j].publishedDate
  \/ db[i].publishedDate = db[j].publishedDate /\ i <= j

RECURSIVE orderBy(_, _)
orderBy(db, rows) ==
  IF rows = {} THEN <<>>
  ELSE LET first == CHOOSE i \in rows : \A j \in rows : comesBefore(db, i, j)
       IN <<first>> \o orderBy(db, rows \ {first})

\* The records from the cursor record on; none when the cursor record is not
\* among them.
fromCursor(ordered, cursor) ==
  LET pos == {k \in 1..Len(ordered) : ordered[k] = cursor}
  IN IF pos = {} THEN <<>> ELSE SubSeq(ordered, Min(pos), Len(ordered))

\* Faulty variant of the query: the cursor row is not skipped.
findManyKeepsCursorRow(db, take, cursor, skip, notIn) ==
  LET rows == {i \in 1..Len(db) : i \notin notIn}
      kept == IF cursor = Null THEN rows
              ELSE IF cursor[1] \notin 1..Len(db) THEN {}
              ELSE {i \in rows : db[i].publishedDate <= db[cursor[1]].publishedDate}
      ordered == orderBy(db, kept)
      started == IF cursor = Null THEN ordered ELSE fromCursor(ordered, cursor[1])
      taken == SubSeq(started, 1, IF Len(started) < take THEN Len(started) ELSE take)
  IN [k \in 1..Len(taken) |-> db[taken[k]]]

\* prisma.paper.findMany({ take, cursor, orderBy: publishedDate desc, skip,
\* where: { id: { notIn } } }): the rows passing the filter that are not
\* newer than the cursor row, ordered, read from the cursor row on, then
\* skipped and cut to take.
findMany(db, take, cursor, skip, notIn) ==
  LET rows == {i \in 1..Len(db) : i \notin notIn}
      kept == IF cursor = Null THEN rows
              ELSE IF cursor[1] \notin 1..Len(db) THEN {}
              ELSE {i \in rows : db[i].publishedDate <= db[cursor[1]].publishedDate}
      ordered == orderBy(db, kept)
      started == IF cursor = Null THEN ordered ELSE fromCursor(ordered, cursor[1])
      skipped == SubSeq(started, skip + 1, Len(started))
      taken == SubSeq(skipped, 1, IF Len(skipped) < take THEN Len(skipped) ELSE take)
  IN [k \in 1..Len(taken) |-> db[taken[k]]]

\* Faulty variant of getFeedPapers: the seen ids are not excluded.
getFeedPapersShowsSeen(db, seenIds, cursor, limit, excludeSeen) ==
  LET found == findMany(db, limit + 1, cursor, IF cursor # Null THEN 1 ELSE 0, {})
      hasMore == Len(found) > limit
      resultPapers == IF hasMore THEN SubSeq(found, 1, limit) ELSE found
      nextCursor == IF hasMore THEN Some(resultPapers[Len(resultPapers)].id) ELSE Null
  IN [papers |-> [k \in 1..Len(resultPapers) |-> toPaper(resultPapers[k])],
      nextCursor |-> nextCursor]

\* getFeedPapers, given the seen ids its first query returned.
getFeedPapers(db, seenIds, cursor, limit, excludeSeen) ==
  LET found == findMany(db, limit + 1, cursor,
                        IF cursor # Null THEN 1 ELSE 0,
                        IF excludeSeen /\ seenIds # {} THEN seenIds ELSE {})
      hasMore == Len(found) > limit
      resultPapers == IF hasMore THEN SubSeq(found, 1, limit) ELSE found
      nextCursor == IF hasMore THEN Some(resultPapers[Len(resultPapers)].id) ELSE Null
  IN [papers |-> [k \in 1..Len(resultPapers) |-> toPaper(resultPapers[k])],
      nextCursor |-> nextCursor]

\* ------------------------------------------------- ingestion on its own
\* upsertPapers maps upsertPaper over the parsed entries of one arXiv
\* answer; each upsert is one store operation.
IngestEntry ==
  \E e \in ArxivEntries(1..MaxVersion, 1..NumRev) : upsertPaper(parseEntry(e))

NextIngest == IngestEntry

SpecIngest == Init /\ [][NextIngest]_vars

\* ------------------------------------------------------ feed route GET
\* Faulty variant of the route: arXiv is fetched on refresh only.
FeedGETRefreshOnly(cursor, refresh) ==
  /\ feed.pc = "idle"
  /\ feed' = [FeedIdle EXCEPT
                !.pc = IF refresh THEN "fetch" ELSE "seen",
                !.cursor = cursor,
                !.refresh = refresh,
                !.stillSeen = getSeenPaperIds]
  /\ UNCHANGED <<papers, seenPaper, savedPaper, lastUpsert, envVars, calls, auxVars>>

\* const cursor = searchParams.get("cursor") || undefined; refresh; then the
\* branch on (refresh || !cursor).
FeedGET(cursor, refresh) ==
  /\ feed.pc = "idle"
  /\ feed' = [FeedIdle EXCEPT
                !.pc = IF refresh \/ cursor = Null THEN "fetch" ELSE "seen",
                !.cursor = cursor,
                !.refresh = refresh,
                !.stillSeen = getSeenPaperIds]
  /\ UNCHANGED <<papers, seenPaper, savedPaper, lastUpsert, envVars, calls, auxVars>>

\* An answer of the arXiv API: entries with pairwise different <id>, few
\* enough to fit the modelled table.
ArxivAnswers(db) ==
  {batch \in SUBSET ArxivEntries({1}, {1}) :
     /\ Cardinality(batch) <= MaxBatch
     /\ \A e1, e2 \in batch : e1.id = e2.id => e1 = e2
     /\ Len(db) + Cardinality({e \in batch :
                      findByArxivId(db, parseEntry(e).arxivId) = {}}) <= MaxPapers}

\* fetchFromArxiv answered 2xx: entries.map(parseEntry), then upsertPapers
\* starts one upsertPaper per parsed paper.
FeedFetchOk ==
  /\ feed.pc = "fetch"
  /\ \E batch \in ArxivAnswers(papers) :
       LET arxivPapers == {parseEntry(e) : e \in batch}
       IN feed' = [feed EXCEPT !.pc = IF arxivPapers = {} THEN "seen" ELSE "upsert",
                               !.pending = arxivPapers,
                               !.fetched = arxivPapers,
                               !.fetches = @ + 1]
  /\ UNCHANGED <<papers, seenPaper, savedPaper, lastUpsert, envVars, calls, auxVars>>

\* The ways fetchFromArxiv throws: throw new Error(`arXiv API error:
\* ${response.status}`) on a non-2xx status, the parse error of a 2xx answer
\* with malformed XML.
ArxivFailures ==
  {[status |-> status, thrown |-> <<"arXiv API error: ", ToString(status)>>] :
     status \in {403, 503}}
  \cup {[status |-> 200, thrown |-> <<"Non-whitespace before first tag.">>]}

\* Faulty variant of the route: a failed fetch is ignored and the page is
\* served from the store.
FeedFetchFailIgnored ==
  /\ feed.pc = "fetch"
  /\ \E failure \in ArxivFailures :
       feed' = [feed EXCEPT !.pc = "seen",
                            !.fetches = @ + 1,
                            !.upstream = Some(failure.status)]
  /\ UNCHANGED <<papers, seenPaper, savedPaper, lastUpsert, envVars, calls, auxVars>>

\* fetchFromArxiv threw (non-2xx status or malformed XML): the catch block
\* of the route answers 500.
FeedFetchFail ==
  /\ feed.pc = "fetch"
  /\ \E failure \in ArxivFailures :
       feed' = [FeedIdle EXCEPT !.pc = "done",
                                !.cursor = feed.cursor,
                                !.categories = feed.categories,
                                !.refresh = feed.refresh,
                                !.fetches = feed.fetches + 1,
                                !.upstream = Some(failure.status),
                                !.response = Some([status |-> 500,
                                                   thrown |-> failure.thrown])]
  /\ UNCHANGED <<papers, seenPaper, savedPaper, lastUpsert, envVars, calls, auxVars>>

\* One of the upserts started by Promise.all(arxivPapers.map(upsertPaper)).
FeedUpsert ==
  /\ feed.pc = "upsert"
  /\ \E arxivPaper \in feed.pending :
       /\ canUpsert(papers, arxivPaper)
       /\ papers' = upsertRow(papers, arxivPaper)
       /\ feed' = [feed EXCEPT !.pending = @ \ {arxivPaper},
                               !.pc = IF feed.pending = {arxivPaper} THEN "seen" ELSE "upsert"]
  /\ UNCHANGED <<seenPaper, savedPaper, lastUpsert, envVars, calls, auxVars>>

\* getFeedPapers, first await: getSeenPaperIds().
FeedReadSeen ==
  /\ feed.pc = "seen"
  /\ feed' = [feed EXCEPT !.pc = "query", !.seenIds = getSeenPaperIds]
  /\ UNCHANGED <<papers, seenPaper, savedPaper, lastUpsert, envVars, calls, auxVars>>

\* The stored categories of a row contain one of the given categories.
inCategories(dbPaper, categories) ==
  LET stored == JSONparse(dbPaper.categories)
  IN \E i \in 1..Len(stored), j \in 1..Len(categories) : stored[i] = categories[j]

\* Faulty variant of the route: the page is drawn from the stored papers of
\* the requested categories only.
FeedQueryByCategories ==
  /\ feed.pc = "query"
  /\ LET others == {i \in 1..Len(papers) : ~inCategories(papers[i], feed.categories)}
         r == getFeedPapers(papers, feed.seenIds \cup others, feed.cursor, FeedLimit, TRUE)
     IN feed' = [FeedIdle EXCEPT
                             !.pc = "done",
                             !.cursor = feed.cursor,
                             !.categories = feed.categories,
                             !.refresh = feed.refresh,
                             !.fetches = feed.fetches,
                             !.stillSeen = feed.stillSeen,
                             !.response = Some([status |-> 200,
                                                papers |-> r.papers,
                                                nextCursor |-> r.nextCursor,
                                                hasMore |-> r.nextCursor # Null])]
  /\ UNCHANGED <<papers, seenPaper, savedPaper, lastUpsert, envVars, calls, auxVars>>

\* getFeedPapers, second await: findMany; then the JSON response.
FeedQuery ==
  /\ feed.pc = "query"
  /\ LET r == getFeedPapers(papers, feed.seenIds, feed.cursor, FeedLimit, TRUE)
     IN feed' = [FeedIdle EXCEPT
                             !.pc = "done",
                             !.cursor = feed.cursor,
                             !.categories = feed.categories,
                             !.refresh = feed.refresh,
                             !.fetches = feed.fetches,
                             !.stillSeen = feed.stillSeen,
                             !.response = Some([status |-> 200,
                                                papers |-> r.papers,
                                                nextCursor |-> r.nextCursor,
                                                hasMore |-> r.nextCursor # Null])]
  /\ UNCHANGED <<papers, seenPaper, savedPaper, lastUpsert, envVars, calls, auxVars>>

\* The response has been delivered.
FeedReturn ==
  /\ feed.pc = "done"
  /\ feed' = FeedIdle
  /\ UNCHANGED <<papers, seenPaper, savedPaper, lastUpsert, envVars, calls, auxVars>>

Cursors == {Null} \cup {Some(i) : i \in 1..MaxPapers}

FeedRequest == \E cursor \in Cursors, refresh \in BOOLEAN : FeedGET(cursor, refresh)
MarkSeen == \E paperId \in 1..MaxPapers : markPaperAsSeen(paperId)
Discard == \E paperId \in 1..MaxPapers : markPaperAsDiscarded(paperId)
Undiscard == \E paperId \in 1..MaxPapers : unmarkPaperAsSeen(paperId)

NextFeed ==
  \/ FeedRequest
  \/ FeedFetchOk
  \/ FeedFetchFail
  \/ FeedUpsert
  \/ FeedReadSeen
  \/ FeedQuery
  \/ FeedReturn
  \/ MarkSeen
  \/ Discard
  \/ Undiscard

SpecFeed == Init /\ [][NextFeed]_vars

\* ================================================= enrichment routes
Answer(op, paperId, response) ==
  [op |-> op, pc |-> "done", paperId |-> paperId, response |-> Some(response),
   reply |-> Null]

Waiting(op, pc, paperId) ==
  [op |-> op, pc |-> pc, paperId |-> paperId, response |-> Null, reply |-> Null]

\* The answer of a call that consulted the provider.
AnswerAfter(outcome, op, paperId, response) ==
  [Answer(op, paperId, response) EXCEPT !.reply = Some(outcome)]

Failure(status) == [status |-> status, cached |-> Null, paper |-> Null, error |-> Null]
Success(paper, cached) ==
  [status |-> 200, cached |-> cached, paper |-> Some(paper), error |-> Null]

storeVars == <<seenPaper, savedPaper, lastUpsert, feed, auxVars>>

\* A handler answers in the step that completes it; the answer stays in its
\* slot until it is delivered, which happens before the server handles the
\* next event.
Delivered == \A c \in 1..NumCalls : calls[c].pc # "done"

\* -------------------------------------------- summarize/route.ts POST
\* Faulty variant of the route: no test for a stored hook and summary.
SummarizePOSTAlwaysGenerates(c, paperId) ==
  /\ Delivered
  /\ calls[c].pc = "idle"
  /\ calls' = [calls EXCEPT ![c] =
       IF paperId = Null THEN Answer("summarize", paperId, Failure(400))
       ELSE IF ~isAIConfigured THEN Answer("summarize", paperId, Failure(503))
       ELSE IF getPaperById(paperId[1]) = Null
            THEN Answer("summarize", paperId, Failure(404))
            ELSE Waiting("summarize", "provider", paperId)]
  /\ UNCHANGED <<papers, storeVars, envVars>>

\* From the request to the first await on the provider.
SummarizePOST(c, paperId) ==
  /\ Delivered
  /\ calls[c].pc = "idle"
  /\ calls' = [calls EXCEPT ![c] =
       IF paperId = Null THEN Answer("summarize", paperId, Failure(400))
       ELSE IF ~isAIConfigured THEN Answer("summarize", paperId, Failure(503))
       ELSE IF getPaperById(paperId[1]) = Null
            THEN Answer("summarize", paperId, Failure(404))
            ELSE LET paper == getPaperById(paperId[1])[1]
                 IN IF Truthy(paper.hook) /\ Truthy(paper.summary)
                    THEN Answer("summarize", paperId, Success(paper, Some(TRUE)))
                    ELSE Waiting("summarize", "provider", paperId)]
  /\ UNCHANGED <<papers, storeVars, envVars>>

\* summarizePaper returned or threw; updatePaperSummary; the response.
SummarizeProvider(c) ==
  /\ Delivered
  /\ calls[c].pc = "provider" /\ calls[c].op = "summarize"
  /\ \E outcome \in SummarizeOutcomes :
       LET parsed == parsedReply(outcome)
           id == calls[c].paperId[1]
       IN IF ~parsed.ok \/ parsed.value = JsonNull \/ id \notin 1..Len(papers)
          THEN /\ calls' = [calls EXCEPT ![c] =
                    AnswerAfter(outcome, "summarize", @.paperId, Failure(500))]
               /\ UNCHANGED papers
          ELSE /\ papers' = updatePaperSummaryRow(papers, id, parsed.value.fields)
               /\ calls' = [calls EXCEPT ![c] =
                    AnswerAfter(outcome, "summarize", @.paperId,
                                Success(toPaper(papers'[id]), Some(FALSE)))]
  /\ UNCHANGED <<storeVars, envVars>>

\* ----------------------------------------- deep-summary/route.ts POST
DeepSummaryPOST(c, paperId) ==
  /\ Delivered
  /\ calls[c].pc = "idle"
  /\ calls' = [calls EXCEPT ![c] =
       IF paperId = Null THEN Answer("deep-summary", paperId, Failure(400))
       ELSE IF ~isAIConfigured THEN Answer("deep-summary", paperId, Failure(503))
       ELSE IF getPaperById(paperId[1]) = Null
            THEN Answer("deep-summary", paperId, Failure(404))
            ELSE LET paper == getPaperById(paperId[1])[1]
                 IN IF paper.deepSummary # Null
                    THEN Answer("deep-summary", paperId, Success(paper, Some(TRUE)))
                    ELSE Waiting("deep-summary", "provider", paperId)]
  /\ UNCHANGED <<papers, storeVars, envVars>>

DeepSummaryProvider(c) ==
  /\ Delivered
  /\ calls[c].pc = "provider" /\ calls[c].op = "deep-summary"
  /\ \E outcome \in DeepSummaryOutcomes :
       LET parsed == parsedReply(outcome)
           id == calls[c].paperId[1]
       IN IF ~parsed.ok \/ id \notin 1..Len(papers)
          THEN /\ calls' = [calls EXCEPT ![c] =
                    AnswerAfter(outcome, "deep-summary", @.paperId, Failure(500))]
               /\ UNCHANGED papers
          ELSE /\ papers' = updatePaperDeepSummaryRow(papers, id, parsed.value)
               /\ calls' = [calls EXCEPT ![c] =
                    AnswerAfter(outcome, "deep-summary", @.paperId,
                                Success(toPaper(papers'[id]), Some(FALSE)))]
  /\ UNCHANGED <<storeVars, envVars>>

\* ---------------------------------------------- figures/route.ts POST
\* Faulty variant of the route: only a non-empty stored figure list counts as
\* processed.
FiguresPOSTRetriesEmpty(c, paperId) ==
  /\ Delivered
  /\ calls[c].pc = "idle"
  /\ calls' = [calls EXCEPT ![c] =
       IF paperId = Null THEN Answer("figures", paperId, Failure(400))
       ELSE IF getPaperById(paperId[1]) = Null
            THEN Answer("figures", paperId, Failure(404))
            ELSE LET paper == getPaperById(paperId[1])[1]
                 IN IF paper.figures # Null /\ paper.figures[1] # <<>>
                    THEN Answer("figures", paperId, Success(paper, Some(TRUE)))
                    ELSE Waiting("figures", "extract", paperId)]
  /\ UNCHANGED <<papers, storeVars, envVars>>

FiguresPOST(c, paperId) ==
  /\ Delivered
  /\ calls[c].pc = "idle"
  /\ calls' = [calls EXCEPT ![c] =
       IF paperId = Null THEN Answer("figures", paperId, Failure(400))
       ELSE IF getPaperById(paperId[1]) = Null
            THEN Answer("figures", paperId, Failure(404))
            ELSE LET paper == getPaperById(paperId[1])[1]
                 IN IF paper.figures # Null \/ paper.figuresError # Null
                    THEN Answer("figures", paperId, Success(paper, Some(TRUE)))
                    ELSE Waiting("figures", "extract", paperId)]
  /\ UNCHANGED <<papers, storeVars, envVars>>

\* Faulty variant of the selection: a failed provider call selects nothing.
chooseFigureNoFallback(figures, configured, outcome) ==
  IF Len(figures) > 0 /\ configured
  THEN LET selected == selectBestFigure(figures, outcome)
       IN IF selected.threw THEN Null ELSE selected.value
  ELSE IF Len(figures) > 0
       THEN Some(withReason(figures[1], <<"First figure">>))
       ELSE Null

\* Faulty variant of the selection: the fallback takes the last figure.
chooseFigureLast(figures, configured, outcome) ==
  IF Len(figures) > 0 /\ configured
  THEN LET selected == selectBestFigure(figures, outcome)
       IN IF selected.threw
          THEN Some(withReason(figures[Len(figures)], <<"First figure">>))
          ELSE selected.value
  ELSE IF Len(figures) > 0
       THEN Some(withReason(figures[Len(figures)], <<"First figure">>))
       ELSE Null

\* The figure the route stores as selected, given the extracted figures and
\* what the provider did (consulted only when figures exist and a provider
\* is configured).
chooseFigure(figures, configured, outcome) ==
  IF Len(figures) > 0 /\ configured
  THEN LET selected == selectBestFigure(figures, outcome)
       IN IF selected.threw
          THEN Some(withReason(figures[1], <<"First figure">>))
          ELSE selected.value
  ELSE IF Len(figures) > 0
       THEN Some(withReason(figures[1], <<"First figure">>))
       ELSE Null

\* extractFiguresFromAr5iv returned; the selection; updatePaperFigures; the
\* response.
FiguresExtract(c, fetchOutcomes, selectOutcomes) ==
  /\ Delivered
  /\ calls[c].pc = "extract" /\ calls[c].op = "figures"
  /\ calls[c].paperId[1] \in 1..Len(papers)
  /\ \E fetched \in fetchOutcomes :
       LET id == calls[c].paperId[1]
           extracted == extractFiguresFromAr5iv(papers[id].arxivId, fetched)
       IN IF Truthy(extracted.error)
          THEN /\ papers' = updatePaperFiguresRow(papers, id, <<>>, Null, extracted.error)
               /\ calls' = [calls EXCEPT ![c] =
                    Answer("figures", @.paperId,
                           [status |-> 200, cached |-> Null,
                            paper |-> Some(toPaper(papers'[id])),
                            error |-> extracted.error])]
          ELSE \E outcome \in selectOutcomes :
                 /\ papers' = updatePaperFiguresRow(papers, id, extracted.figures,
                                 chooseFigure(extracted.figures, isAIConfigured, outcome),
                                 Null)
                 /\ calls' = [calls EXCEPT ![c] =
                      IF Len(extracted.figures) > 0 /\ isAIConfigured
                      THEN AnswerAfter(outcome, "figures", @.paperId,
                                       Success(toPaper(papers'[id]), Some(FALSE)))
                      ELSE Answer("figures", @.paperId,
                                  Success(toPaper(papers'[id]), Some(FALSE)))]
  /\ UNCHANGED <<storeVars, envVars>>

\* The response has been delivered.
CallReturn(c) ==
  /\ calls[c].pc = "done"
  /\ calls' = [calls EXCEPT ![c] = CallIdle]
  /\ UNCHANGED <<papers, storeVars, envVars>>

\* The server is restarted with other settings; no request survives a
\* restart.
Restart(config) ==
  /\ \A c \in 1..NumCalls : calls[c].pc = "idle"
  /\ feed.pc = "idle"
  /\ <<envFile, processEnv>> # <<config.file, config.process>>
  /\ envFile' = config.file
  /\ processEnv' = config.process
  /\ UNCHANGED <<papers, storeVars, calls>>

\* The papers the enrichment routes are exercised on: paper 1 as first
\* ingested.
EnrichIngest ==
  /\ Delivered
  /\ canUpsert(papers, parseEntry(ArxivEntry(1, 1, 1)))
  /\ papers' = upsertRow(papers, parseEntry(ArxivEntry(1, 1, 1)))
  /\ UNCHANGED <<storeVars, envVars, calls>>

PaperIdInputs == {Null} \cup {Some(i) : i \in 1..2}

Summarize == \E c \in 1..NumCalls, paperId \in PaperIdInputs : SummarizePOST(c, paperId)
SummarizeReply == \E c \in 1..NumCalls : SummarizeProvider(c)
DeepSummary == \E c \in 1..NumCalls, paperId \in PaperIdInputs : DeepSummaryPOST(c, paperId)
DeepSummaryReply == \E c \in 1..NumCalls : DeepSummaryProvider(c)
Figures == \E c \in 1..NumCalls, paperId \in PaperIdInputs : FiguresPOST(c, paperId)
FiguresReply ==
  \E c \in 1..NumCalls :
    FiguresExtract(c,
                   {FetchThrew(<<"fetch failed">>), FetchThrew(<<>>), FetchStatus(404, <<>>),
                    FetchStatus(200, <<>>), FetchStatus(200, Ar5ivPage3)},
                   SelectOutcomes(0..1))
Responded == \E c \in 1..NumCalls : CallReturn(c)
Reconfigure == \E k \in 1..Len(EnvConfigs) : Restart(EnvConfigs[k])

NextEnrich ==
  \/ EnrichIngest
  \/ Summarize
  \/ SummarizeReply
  \/ DeepSummary
  \/ DeepSummaryReply
  \/ Figures
  \/ FiguresReply
  \/ Responded
  \/ Reconfigure

SpecEnrich == Init /\ [][NextEnrich]_vars

\* ========================================== paper and search routes
\* A response stays in its slot until it is delivered, which happens before
\* the server handles the next event.
RequestsDelivered == \A q \in 1..NumRequests : request[q].pc # "done"

Respond(req, response) == [req EXCEPT !.pc = "done", !.response = Some(response)]

routeFrame == <<lastUpsert, feed, envVars, calls, probe, client>>

\* ----------------------------------------- papers/[id]/route.ts GET
\* getPaperById, then the 404 or the wait for isPaperSaved.
PaperGET(q, id) ==
  /\ RequestsDelivered
  /\ request[q].pc = "idle"
  /\ request' = [request EXCEPT ![q] =
       LET req == [NoRequest EXCEPT !.route = "paper GET", !.id = id]
       IN IF getPaperById(id) = Null
          THEN Respond(req, [status |-> 404])
          ELSE [req EXCEPT !.pc = "saved", !.paper = getPaperById(id)]]
  /\ UNCHANGED <<papers, seenPaper, savedPaper, history, routeFrame>>

\* const saved = await isPaperSaved(id)
PaperGETSaved(q) ==
  /\ RequestsDelivered
  /\ request[q].route = "paper GET" /\ request[q].pc = "saved"
  /\ request' = [request EXCEPT ![q] =
       [@ EXCEPT !.pc = "discarded", !.saved = isPaperSaved(request[q].id)]]
  /\ UNCHANGED <<papers, seenPaper, savedPaper, history, routeFrame>>

\* const discarded = await isPaperDiscarded(id); the response.
PaperGETDiscarded(q) ==
  /\ RequestsDelivered
  /\ request[q].route = "paper GET" /\ request[q].pc = "discarded"
  /\ request' = [request EXCEPT ![q] =
       Respond(@, [status |-> 200, paper |-> @.paper[1], saved |-> @.saved,
                   discarded |-> isPaperDiscarded(@.id)])]
  /\ UNCHANGED <<papers, seenPaper, savedPaper, history, routeFrame>>

\* ---------------------------------------- papers/[id]/route.ts POST
PaperActions == {"save", "unsave", "discard", "undiscard"}

\* Ghost of an action request: the mark the paper carried when the action
\* arrived.
markOf(id) ==
  IF isPaperDiscarded(id) THEN "discarded"
  ELSE IF isPaperSeen(id) THEN "seen" ELSE "nothing"

\* A mark row references its paper (FOREIGN KEY paperId REFERENCES Paper):
\* creating one for an id that is not stored makes prisma throw.
violatesForeignKey(id, action) ==
  action \in {"save", "discard"} /\ id \notin 1..Len(papers)

\* Faulty variant of the route: save and discard share the seen table.
PaperPOSTSharedMark(q, id, action) ==
  /\ RequestsDelivered
  /\ request[q].pc = "idle"
  /\ LET req == [NoRequest EXCEPT !.route = "paper POST", !.id = id, !.action = action,
                                  !.removed = markOf(id)]
     IN IF action = Null \/ action[1] \notin PaperActions
        THEN /\ request' = [request EXCEPT ![q] = Respond(req, [status |-> 400])]
             /\ UNCHANGED <<seenPaper, savedPaper, history>>
        ELSE IF violatesForeignKey(id, action[1])
        THEN /\ request' = [request EXCEPT ![q] = Respond(req, [status |-> 500])]
             /\ UNCHANGED <<seenPaper, savedPaper, history>>
        ELSE /\ savedPaper' =
                  IF action[1] = "save" THEN savedRows(savedPaper, id)
                  ELSE IF action[1] \in {"unsave", "undiscard"}
                       THEN unsavedRows(savedPaper, id)
                       ELSE savedPaper
             /\ seenPaper' =
                  IF action[1] = "discard" THEN discardedRows(seenPaper, id)
                  ELSE IF action[1] = "undiscard" THEN unmarkedRows(seenPaper, id)
                       ELSE seenPaper
             /\ history' =
                  IF id \notin 1..Len(papers) THEN history
                  ELSE IF action[1] \in {"save", "unsave"}
                       THEN [history EXCEPT ![id].save = action[1]]
                       ELSE [history EXCEPT ![id].discard = action[1]]
             /\ request' = [request EXCEPT ![q] =
                  Respond(req,
                    IF action[1] \in {"save", "unsave"}
                    THEN [status |-> 200, saved |-> action[1] = "save"]
                    ELSE [status |-> 200, discarded |-> action[1] = "discard"])]
  /\ UNCHANGED <<papers, routeFrame>>

\* The action of the body, its one store operation and the response.
PaperPOST(q, id, action) ==
  /\ RequestsDelivered
  /\ request[q].pc = "idle"
  /\ LET req == [NoRequest EXCEPT !.route = "paper POST", !.id = id, !.action = action,
                                  !.removed = markOf(id)]
     IN IF action = Null \/ action[1] \notin PaperActions
        THEN /\ request' = [request EXCEPT ![q] = Respond(req, [status |-> 400])]
             /\ UNCHANGED <<seenPaper, savedPaper, history>>
        ELSE IF violatesForeignKey(id, action[1])
        THEN /\ request' = [request EXCEPT ![q] = Respond(req, [status |-> 500])]
             /\ UNCHANGED <<seenPaper, savedPaper, history>>
        ELSE /\ savedPaper' =
                  IF action[1] = "save" THEN savedRows(savedPaper, id)
                  ELSE IF action[1] = "unsave" THEN unsavedRows(savedPaper, id)
                       ELSE savedPaper
             /\ seenPaper' =
                  IF action[1] = "discard" THEN discardedRows(seenPaper, id)
                  ELSE IF action[1] = "undiscard" THEN unmarkedRows(seenPaper, id)
                       ELSE seenPaper
             /\ history' =
                  IF id \notin 1..Len(papers) THEN history
                  ELSE IF action[1] \in {"save", "unsave"}
                       THEN [history EXCEPT ![id].save = action[1]]
                       ELSE [history EXCEPT ![id].discard = action[1]]
             /\ request' = [request EXCEPT ![q] =
                  Respond(req,
                    IF action[1] \in {"save", "unsave"}
                    THEN [status |-> 200, saved |-> action[1] = "save"]
                    ELSE [status |-> 200, discarded |-> action[1] = "discard"])]
  /\ UNCHANGED <<papers, routeFrame>>

\* ------------------------------------------------ search/route.ts POST
\* The query member of the body: absent, a value that is not a string, or a
\* string.
NotAString == [isString |-> FALSE, text |-> <<>>]
QueryText(text) == [isString |-> TRUE, text |-> text]

\* query.replace(/\s+/g, "+")
plusForSpaces(text) ==
  LET t == collapseWs(text)
  IN [i \in 1..Len(t) |-> IF t[i] = " " THEN "+" ELSE t[i]]

RECURSIVE joinCategories(_)
joinCategories(categories) ==
  IF Len(categories) = 0 THEN <<>>
  ELSE IF Len(categories) = 1 THEN <<"cat:", categories[1]>>
  ELSE <<"cat:", categories[1], "+OR+">> \o joinCategories(Tail(categories))

\* searchArxiv: the search_query and sortBy parameters of the request.
searchParams(query, categories, sortBy) ==
  LET all == <<"all:">> \o plusForSpaces(query)
  IN [search_query |->
        IF categories # Null /\ Len(categories[1]) > 0
        THEN <<"(">> \o all \o <<")+AND+(">> \o joinCategories(categories[1]) \o <<")">>
        ELSE all,
      sortBy |-> sortBy]

InterpretationOf(searchQuery, explanation) ==
  [searchQuery |-> searchQuery,
   categories |-> Some(<<"cs.LG", "cs.CL">>),
   sortBy |-> Some("submittedDate"),
   explanation |-> explanation]

InterpretOutcomes ==
  {Threw, Replied(<<OtherText>>), Replied(<<JsonDoc(JsonNull)>>)}
  \cup {Replied(<<JsonDoc(JsonObject(InterpretationOf(searchQuery, explanation)))>>) :
          searchQuery \in {Null, Some(<<"graph", " ", "networks">>)},
          explanation \in {Null, Some(<<"recent", " ", "work">>)}}

\* From the request to the first await: 400, interpretSearch when a provider
\* is configured, searchArxiv with the raw query otherwise.
SearchPOST(q, query) ==
  /\ RequestsDelivered
  /\ request[q].pc = "idle"
  /\ request' = [request EXCEPT ![q] =
       LET req == [NoRequest EXCEPT !.route = "search", !.query = query]
       IN IF query = Null \/ ~query[1].isString \/ query[1].text = <<>>
          THEN Respond(req, [status |-> 400])
          ELSE [req EXCEPT !.pc = IF isAIConfigured THEN "interpret" ELSE "arxiv",
                           !.searchQuery = Some(query[1].text)]]
  /\ UNCHANGED <<papers, seenPaper, savedPaper, history, routeFrame>>

\* Faulty variant of the route: a failed interpretation fails the search.
SearchInterpretUncaught(q) ==
  /\ RequestsDelivered
  /\ request[q].route = "search" /\ request[q].pc = "interpret"
  /\ \E outcome \in InterpretOutcomes :
       LET parsed == parsedReply(outcome)
       IN request' = [request EXCEPT ![q] =
            IF ~parsed.ok \/ parsed.value = JsonNull
            THEN Respond([@ EXCEPT !.reply = Some(outcome)],
                         [status |-> 500, thrown |-> <<"interpretSearch">>])
            ELSE [@ EXCEPT !.pc = "arxiv", !.reply = Some(outcome),
                           !.searchQuery = parsed.value.fields.searchQuery,
                           !.categories = parsed.value.fields.categories,
                           !.sortBy = IF parsed.value.fields.sortBy # Null
                                      THEN parsed.value.fields.sortBy[1] ELSE "undefined",
                           !.explanation = parsed.value.fields.explanation]]
  /\ UNCHANGED <<papers, seenPaper, savedPaper, history, routeFrame>>

\* interpretSearch returned or threw; a throw (also the TypeError of reading
\* a member of null) leaves the raw query, no categories and relevance.
SearchInterpret(q) ==
  /\ RequestsDelivered
  /\ request[q].route = "search" /\ request[q].pc = "interpret"
  /\ \E outcome \in InterpretOutcomes :
       LET parsed == parsedReply(outcome)
       IN request' = [request EXCEPT ![q] =
            IF ~parsed.ok \/ parsed.value = JsonNull
            THEN [@ EXCEPT !.pc = "arxiv", !.reply = Some(outcome)]
            ELSE [@ EXCEPT !.pc = "arxiv", !.reply = Some(outcome),
                           !.searchQuery = parsed.value.fields.searchQuery,
                           !.categories = parsed.value.fields.categories,
                           !.sortBy = IF parsed.value.fields.sortBy # Null
                                      THEN parsed.value.fields.sortBy[1] ELSE "undefined",
                           !.explanation = parsed.value.fields.explanation]]
  /\ UNCHANGED <<papers, seenPaper, savedPaper, history, routeFrame>>

\* The answers arXiv gives to a search: entries with pairwise different <id>.
SearchAnswers == SUBSET {ArxivEntry(1, 1, 1), ArxivEntry(2, 1, 1)}

\* The response of a search whose upserts have all returned.
searchResponse(req, upserted) ==
  [status |-> 200, papers |-> upserted,
   interpretation |->
     IF Truthy(req.explanation)
     THEN Some([query |-> req.searchQuery, categories |-> req.categories,
                sortBy |-> req.sortBy, explanation |-> req.explanation])
     ELSE Null]

\* The TypeError of undefined.replace(...).
NoReplace == <<"Cannot read properties of undefined (reading 'replace')">>

\* searchArxiv returned or threw (an undefined searchQuery throws at
\* query.replace before any fetch); upsertPapers starts one upsertPaper per
\* parsed paper.
SearchArxiv(q) ==
  /\ RequestsDelivered
  /\ request[q].route = "search" /\ request[q].pc = "arxiv"
  /\ IF request[q].searchQuery = Null
     THEN request' = [request EXCEPT ![q] =
            Respond(@, [status |-> 500, thrown |-> NoReplace])]
     ELSE LET sent == searchParams(request[q].searchQuery[1], request[q].categories,
                                   request[q].sortBy)
          IN \/ \E failure \in ArxivFailures :
                  request' = [request EXCEPT ![q] =
                    Respond([@ EXCEPT !.sent = Some(sent)],
                            [status |-> 500, thrown |-> failure.thrown])]
             \/ \E batch \in SearchAnswers :
                  request' = [request EXCEPT ![q] =
                    IF batch = {}
                    THEN Respond([@ EXCEPT !.sent = Some(sent)], searchResponse(@, {}))
                    ELSE [@ EXCEPT !.pc = "upsert", !.sent = Some(sent),
                                   !.pending = {parseEntry(e) : e \in batch}]]
  /\ UNCHANGED <<papers, seenPaper, savedPaper, history, routeFrame>>

\* One of the upserts started by upsertPapers; the response after the last.
SearchUpsert(q) ==
  /\ RequestsDelivered
  /\ request[q].route = "search" /\ request[q].pc = "upsert"
  /\ \E arxivPaper \in request[q].pending :
       /\ canUpsert(papers, arxivPaper)
       /\ papers' = upsertRow(papers, arxivPaper)
       /\ LET row == papers'[Min(findByArxivId(papers', arxivPaper.arxivId))]
              upserted == request[q].upserted \cup {toPaper(row)}
          IN request' = [request EXCEPT ![q] =
               IF request[q].pending = {arxivPaper}
               THEN Respond([@ EXCEPT !.pending = {}, !.upserted = upserted],
                            searchResponse(@, upserted))
               ELSE [@ EXCEPT !.pending = @ \ {arxivPaper}, !.upserted = upserted]]
  /\ UNCHANGED <<seenPaper, savedPaper, history, routeFrame>>

\* The response has been delivered.
RequestReturn(q) ==
  /\ request[q].pc = "done"
  /\ request' = [request EXCEPT ![q] = NoRequest]
  /\ UNCHANGED <<papers, seenPaper, savedPaper, history, routeFrame>>

PaperIds == 1..MaxPapers

DetailRequest == \E q \in 1..NumRequests, id \in PaperIds : PaperGET(q, id)
DetailSaved == \E q \in 1..NumRequests : PaperGETSaved(q)
DetailDiscarded == \E q \in 1..NumRequests : PaperGETDiscarded(q)
ActionRequest ==
  \E q \in 1..NumRequests, id \in PaperIds,
     action \in {Null, Some("archive")} \cup {Some(a) : a \in PaperActions} :
    PaperPOST(q, id, action)
SearchRequest ==
  \E q \in 1..NumRequests,
     query \in {Null, Some(NotAString), Some(QueryText(<<>>)),
                Some(QueryText(<<"graph", " ", " ", "networks">>))} :
    SearchPOST(q, query)
SearchInterpreted == \E q \in 1..NumRequests : SearchInterpret(q)
SearchFetched == \E q \in 1..NumRequests : SearchArxiv(q)
SearchStored == \E q \in 1..NumRequests : SearchUpsert(q)
RequestDelivered == \E q \in 1..NumRequests : RequestReturn(q)

\* The papers the paper routes are exercised on.
RoutesIngest ==
  /\ RequestsDelivered
  /\ \E e \in {ArxivEntry(1, 1, 1), ArxivEntry(2, 1, 1)} :
       /\ canUpsert(papers, parseEntry(e))
       /\ papers' = upsertRow(papers, parseEntry(e))
  /\ UNCHANGED <<seenPaper, savedPaper, request, history, routeFrame>>

\* The function markPaperAsSeen, which no route calls, applied to a stored
\* paper.
RoutesMarkSeen ==
  /\ RequestsDelivered
  /\ \E paperId \in PaperIds : markPaperAsSeen(paperId)

NextRoutes ==
  \/ RoutesIngest
  \/ RoutesMarkSeen
  \/ DetailRequest
  \/ DetailSaved
  \/ DetailDiscarded
  \/ ActionRequest
  \/ RequestDelivered

SpecRoutes == Init /\ [][NextRoutes]_vars

\* The server is started with any of the settings.
InitSearch ==
  /\ InitStore
  /\ \E k \in 1..Len(EnvConfigs) :
       envFile = EnvConfigs[k].file /\ processEnv = EnvConfigs[k].process
  /\ probe = NoProbe

NextSearch ==
  \/ SearchRequest
  \/ SearchInterpreted
  \/ SearchFetched
  \/ SearchStored
  \/ RequestDelivered

SpecSearch == InitSearch /\ [][NextSearch]_vars

\* ======================================= the figure services on their own
\* The <figure class="ltx_figure"> blocks a page is made of: image with
\* root-relative src and caption, no image, image with relative src and no
\* caption, image with absolute src and a caption with markup.
FigureBlocks ==
  { Ar5ivPage3[1], Ar5ivPage3[2], Ar5ivPage3[3], Ar5ivPage1[1] }

RECURSIVE PagesOfLength(_)
PagesOfLength(n) ==
  IF n = 0 THEN { <<>> }
  ELSE {Append(page, block) : page \in PagesOfLength(n - 1), block \in FigureBlocks}

Ar5ivPages == UNION {PagesOfLength(n) : n \in 0..MaxBlocks}

StoredArxivIds == { <<"2401.0000", "1", "v", "1">>, <<"2401.0000", "2">> }

FetchOutcomes ==
  {FetchThrew(<<"fetch failed">>), FetchThrew(<<>>), FetchThrewValue}
  \cup {FetchStatus(status, <<>>) : status \in {204, 404, 500, 503}}
  \cup {FetchStatus(200, page) : page \in Ar5ivPages}

\* The figure lists the extractor can hand to selectBestFigure.
FigureLists ==
  {parseFiguresFromHtml(page, <<"2401.0000", "1">>) : page \in Ar5ivPages}

ProbeInputs ==
  {[fn |-> "selectBestFigure", figures |-> figures, outcome |-> outcome,
    result |-> Null] :
      figures \in FigureLists, outcome \in SelectOutcomes((0 - 1)..(MaxBlocks + 1))}
  \cup {[fn |-> "extractFiguresFromAr5iv", arxivId |-> arxivId, fetched |-> fetched,
         result |-> Null] :
      arxivId \in StoredArxivIds, fetched \in FetchOutcomes}
  \cup {[fn |-> "parseFiguresFromHtml", html |-> page, arxivId |-> arxivId,
         result |-> Null] :
      page \in Ar5ivPages, arxivId \in {cleanId(a) : a \in StoredArxivIds}}

InitFigureFns ==
  /\ InitStore
  /\ envFile = EnvConfigs[1].file
  /\ processEnv = EnvConfigs[1].process
  /\ probe \in ProbeInputs

ApplySelectBestFigure ==
  /\ probe.fn = "selectBestFigure" /\ probe.result = Null
  /\ probe' = [probe EXCEPT !.result = Some(selectBestFigure(probe.figures, probe.outcome))]
  /\ UNCHANGED <<papers, seenPaper, savedPaper, lastUpsert, feed, envVars, calls,
                 request, history, client>>

ApplyExtractFigures ==
  /\ probe.fn = "extractFiguresFromAr5iv" /\ probe.result = Null
  /\ probe' = [probe EXCEPT
                 !.result = Some(extractFiguresFromAr5iv(probe.arxivId, probe.fetched))]
  /\ UNCHANGED <<papers, seenPaper, savedPaper, lastUpsert, feed, envVars, calls,
                 request, history, client>>

ApplyParseFigures ==
  /\ probe.fn = "parseFiguresFromHtml" /\ probe.result = Null
  /\ probe' = [probe EXCEPT
                 !.result = Some(parseFiguresFromHtml(probe.html, probe.arxivId))]
  /\ UNCHANGED <<papers, seenPaper, savedPaper, lastUpsert, feed, envVars, calls,
                 request, history, client>>

NextFigureFns ==
  \/ ApplySelectBestFigure
  \/ ApplyExtractFigures
  \/ ApplyParseFigures

SpecFigureFns == InitFigureFns /\ [][NextFigureFns]_vars

\* ============================================= the settings on their own
\* ai.ts: loadEnvFile.  A line is the sequence of its tokens; " " is white
\* space, "=" the separator, "#" the comment sign.
RECURSIVE trimStart(_)
trimStart(text) ==
  IF text # <<>> /\ text[1] = " " THEN trimStart(Tail(text)) ELSE text

RECURSIVE trimEnd(_)
trimEnd(text) ==
  IF text # <<>> /\ text[Len(text)] = " "
  THEN trimEnd(SubSeq(text, 1, Len(text) - 1)) ELSE text

trim(text) == trimEnd(trimStart(text))

\* The position of the first "=" of a line, 0 when it has none.
firstSeparator(line) ==
  IF \E i \in 1..Len(line) : line[i] = "="
  THEN CHOOSE i \in 1..Len(line) :
         line[i] = "=" /\ \A j \in 1..(i - 1) : line[j] # "="
  ELSE 0

quotedBy(value, quote) ==
  value # <<>> /\ value[1] = quote /\ value[Len(value)] = quote

\* The body of the loop: the assignment a line makes, if any.
parseEnvLine(line) ==
  LET trimmed == trim(line)
      at == firstSeparator(trimmed)
  IN IF trimmed = <<>> \/ trimmed[1] = "#" THEN Null
     ELSE IF at = 0 \/ at = 1 THEN Null
     ELSE LET value == trim(SubSeq(trimmed, at + 1, Len(trimmed)))
          IN Some([key |-> trim(SubSeq(trimmed, 1, at - 1)),
                   value |-> IF quotedBy(value, "\"") \/ quotedBy(value, "'")
                             THEN SubSeq(value, 2, Len(value) - 1)
                             ELSE value])

\* The record of the settings a file's lines leave, read at the keys the
\* server uses; a missing or unreadable file has no lines.
RECURSIVE loadEnvFile(_)
loadEnvFile(content) ==
  IF content = <<>> THEN NoEnv
  ELSE LET before == loadEnvFile(SubSeq(content, 1, Len(content) - 1))
           entry == parseEnvLine(content[Len(content)])
       IN IF entry = Null THEN before
          ELSE IF Len(entry[1].key) = 1 /\ entry[1].key[1] \in EnvKeys
               THEN [before EXCEPT ![entry[1].key[1]] = Some(entry[1].value)]
               ELSE before

\* Lines of a .env file: a value, an empty value, a quoted value, a padded
\* line and a key without separator for each key, a comment, a blank line.
EnvLines ==
  UNION { { <<key, "=", "from-file">>,
            <<key, "=">>,
            <<key, "=", "\"", "from-file", "\"">>,
            <<" ", key, " ", "=", " ", "from-file", " ">>,
            <<key>> } : key \in EnvKeys }
  \cup { <<"#", "comment">>, <<>> }

RECURSIVE EnvFilesOfLength(_)
EnvFilesOfLength(n) ==
  IF n = 0 THEN { <<>> }
  ELSE {Append(content, line) : content \in EnvFilesOfLength(n - 1), line \in EnvLines}

EnvFiles == UNION {EnvFilesOfLength(n) : n \in 0..MaxLines}

ProcessEnvs == [EnvKeys -> {Null, Some(<<"from-process">>)}]

InitEnv ==
  /\ InitStore
  /\ processEnv \in ProcessEnvs
  /\ \E content \in EnvFiles, key \in EnvKeys :
       /\ envFile = loadEnvFile(content)
       /\ probe = [fn |-> "getEnv", content |-> content, key |-> key,
                   result |-> Null]

ApplyGetEnv ==
  /\ probe.fn = "getEnv" /\ probe.result = Null
  /\ probe' = [probe EXCEPT !.result = Some(getEnv(probe.key))]
  /\ UNCHANGED <<papers, seenPaper, savedPaper, lastUpsert, feed, envVars, calls,
                 request, history, client>>

NextEnv == ApplyGetEnv

SpecEnv == InitEnv /\ [][NextEnv]_vars

\* ===================================================== PaperCard.tsx
clientFrame ==
  <<papers, seenPaper, savedPaper, lastUpsert, feed, envVars, calls, probe,
    request, history>>

\* The fields of a paper a card reads: hook, selectedFigure (an object or
\* null) and figuresError; the server never stores a selection together
\* with an error.
CardPapers ==
  {paper \in [hook : {Null, Some(<<>>), Some(<<"hook">>)},
              selectedFigure : {Null, Some("figure")},
              figuresError : {Null, Some(<<"ar5iv rendering not available">>)}] :
     paper.selectedFigure = Null \/ paper.figuresError = Null}

\* The truthiness of a string member and of an object member of the paper.
present(member) == member # Null /\ member[1] # <<>>
presentObject(member) == member # Null

\* What the two cards are exercised with: the card in view gets every paper
\* and every pair of props, the card after it is never active and its paper
\* is either bare or fully enriched.
PapersOf(k) ==
  IF k = "active" THEN CardPapers
  ELSE {paper \in CardPapers :
          \/ paper.hook = Null /\ paper.selectedFigure = Null /\ paper.figuresError = Null
          \/ present(paper.hook) /\ paper.selectedFigure # Null}

PropsOf(k) ==
  IF k = "active" THEN BOOLEAN \X BOOLEAN ELSE {FALSE} \X BOOLEAN


\* Faulty variant of summarizePaper: no test of isSummarizing.
summarizePaperUnguarded(card) ==
  IF present(card.summarizedPaper.hook) \/ card.summarizing >= 2 THEN card
  ELSE [card EXCEPT !.isSummarizing = TRUE, !.summarizing = @ + 1]

\* summarizePaper up to its fetch: the early return, setIsSummarizing(true),
\* the request.
summarizePaper(card) ==
  IF present(card.summarizedPaper.hook) \/ card.isSummarizing THEN card
  ELSE [card EXCEPT !.isSummarizing = TRUE, !.summarizing = @ + 1]

\* fetchFigures up to its fetch.
fetchFigures(card) ==
  IF \/ presentObject(card.summarizedPaper.selectedFigure)
     \/ present(card.summarizedPaper.figuresError)
     \/ card.isFetchingFigures
  THEN card
  ELSE [card EXCEPT !.isFetchingFigures = TRUE, !.fetching = @ + 1]

renderOf(card) ==
  [isActive |-> card.isActive, shouldPrefetch |-> card.shouldPrefetch,
   summarizedPaper |-> card.summarizedPaper]

summarizeDepsOf(render) ==
  <<render.isActive, render.shouldPrefetch, render.summarizedPaper.hook>>

figuresDepsOf(render) ==
  <<render.isActive, render.shouldPrefetch, render.summarizedPaper.selectedFigure,
    render.summarizedPaper.figuresError>>

\* Faulty variant of the first effect: it tests the props and the hook only
\* and calls the unguarded function.
summarizeEffectUnguarded(card) ==
  IF (card.isActive \/ card.shouldPrefetch) /\ ~present(card.summarizedPaper.hook)
  THEN summarizePaperUnguarded(card) ELSE card

\* useEffect(..., [isActive, shouldPrefetch, summarizedPaper.hook])
summarizeEffect(card) ==
  IF /\ card.isActive \/ card.shouldPrefetch
     /\ ~present(card.summarizedPaper.hook)
     /\ ~card.isSummarizing
  THEN summarizePaper(card) ELSE card

\* useEffect(..., [isActive, shouldPrefetch, selectedFigure, figuresError]);
\* rendered is the card as the render saw it.
figuresEffect(rendered, card) ==
  IF /\ rendered.isActive \/ rendered.shouldPrefetch
     /\ ~presentObject(rendered.summarizedPaper.selectedFigure)
     /\ ~present(rendered.summarizedPaper.figuresError)
     /\ ~rendered.isFetchingFigures
  THEN fetchFigures(card) ELSE card

setCard(k, card) ==
  /\ client' = [client EXCEPT !.cards[k] = card]
  /\ UNCHANGED clientFrame

\* The parent renders card k for the first time.
CardMount(k, paper, isActive, shouldPrefetch) ==
  /\ ~client.cards[k].mounted
  /\ setCard(k, [NoCard EXCEPT !.mounted = TRUE, !.isActive = isActive,
                               !.shouldPrefetch = shouldPrefetch,
                               !.summarizedPaper = paper])

\* The parent renders card k with other props.
CardProps(k, isActive, shouldPrefetch) ==
  /\ client.cards[k].mounted
  /\ <<isActive, shouldPrefetch>>
       # <<client.cards[k].isActive, client.cards[k].shouldPrefetch>>
  /\ setCard(k, [client.cards[k] EXCEPT !.isActive = isActive,
                                        !.shouldPrefetch = shouldPrefetch])

\* The parent passes another paper object: setSummarizedPaper(paper).
CardPaper(k, paper) ==
  /\ client.cards[k].mounted
  /\ paper # client.cards[k].summarizedPaper
  /\ setCard(k, [client.cards[k] EXCEPT !.summarizedPaper = paper])

\* React commits the render of card k and runs the effects whose
\* dependencies changed since they last ran.
CardCommit(k) ==
  LET card == client.cards[k]
      first == card.committed = Null
      runSummarize ==
        first \/ summarizeDepsOf(card.committed[1]) # summarizeDepsOf(renderOf(card))
      runFigures ==
        first \/ figuresDepsOf(card.committed[1]) # figuresDepsOf(renderOf(card))
      summarized == IF runSummarize THEN summarizeEffect(card) ELSE card
      fetched == IF runFigures THEN figuresEffect(card, summarized) ELSE summarized
  IN /\ card.mounted
     /\ card.committed # Some(renderOf(card))
     /\ setCard(k, [fetched EXCEPT !.committed = Some(renderOf(card))])

\* The summarize request of card k is answered: response.ok with the stored
\* paper, or a failure; finally setIsSummarizing(false).
CardSummarized(k) ==
  /\ client.cards[k].summarizing > 0
  /\ \E ok \in BOOLEAN, paper \in PapersOf(k) :
       /\ ~ok => paper = client.cards[k].summarizedPaper
       /\ setCard(k, [client.cards[k] EXCEPT !.summarizedPaper = paper,
                                             !.isSummarizing = FALSE,
                                             !.summarizing = @ - 1])

\* The figures request of card k is answered: ({ ...prev, ...updatedPaper }).
CardFetched(k) ==
  /\ client.cards[k].fetching > 0
  /\ \E ok \in BOOLEAN, paper \in PapersOf(k) :
       /\ ~ok => paper = client.cards[k].summarizedPaper
       /\ setCard(k, [client.cards[k] EXCEPT !.summarizedPaper = paper,
                                             !.isFetchingFigures = FALSE,
                                             !.fetching = @ - 1])

Mounted ==
  \E k \in Cards : \E paper \in PapersOf(k), props \in PropsOf(k) :
    CardMount(k, paper, props[1], props[2])
Rendered ==
  \E k \in Cards : \E props \in PropsOf(k) : CardProps(k, props[1], props[2])
Repapered == \E k \in Cards : \E paper \in PapersOf(k) : CardPaper(k, paper)
Committed == \E k \in Cards : CardCommit(k)
SummarizeAnswered == \E k \in Cards : CardSummarized(k)
FiguresAnswered == \E k \in Cards : CardFetched(k)

NextCards ==
  \/ Mounted
  \/ Rendered
  \/ Repapered
  \/ Committed
  \/ SummarizeAnswered
  \/ FiguresAnswered

SpecCards == Init /\ [][NextCards]_vars

\* ================================================ a walk through the feed
\* The store is filled before the walk.
WalkIngest ==
  /\ client.walk.pc = "idle"
  /\ \E e \in ArxivEntries({1}, {1}) :
       /\ findByArxivId(papers, parseEntry(e).arxivId) = {}
       /\ canUpsert(papers, parseEntry(e))
       /\ papers' = upsertRow(papers, parseEntry(e))
  /\ UNCHANGED <<storeVars, envVars, calls>>

\* discardPaper of a card: before the walk any stored paper, during the walk
\* a paper of a page already received.
WalkDiscard ==
  \E paperId \in 1..Len(papers) :
    /\ \/ client.walk.pc = "idle"
       \/ /\ client.walk.pc = "walking"
          /\ \E n \in 1..Len(client.walk.shown) : client.walk.shown[n] = paperId
    /\ ~isPaperSeen(paperId)
    /\ markPaperAsDiscarded(paperId)

\* GET /api/feed with the cursor of the previous page: getFeedPapers(cursor,
\* limit) on the store as it is.
WalkPage ==
  /\ client.walk.pc \in {"idle", "walking"}
  /\ papers # <<>>
  /\ LET r == getFeedPapers(papers, getSeenPaperIds, client.walk.cursor, FeedLimit, TRUE)
     IN client' = [client EXCEPT !.walk =
          [pc |-> IF r.nextCursor = Null THEN "done" ELSE "walking",
           cursor |-> r.nextCursor,
           shown |-> @.shown \o [n \in 1..Len(r.papers) |-> r.papers[n].id]]]
  /\ UNCHANGED clientFrame

\* The reader starts over.
WalkAgain ==
  /\ client.walk.pc = "done"
  /\ client' = [client EXCEPT !.walk = NoWalk]
  /\ UNCHANGED clientFrame

NextWalk ==
  \/ WalkIngest
  \/ WalkDiscard
  \/ WalkPage
  \/ WalkAgain

SpecWalk == Init /\ [][NextWalk]_vars

\* ==================================================== ScrollFeed.tsx
MaxListed == 2 * MaxPapers

\* An arXiv fetch of the feed route stores a new paper.
ScrollIngest ==
  /\ \E e \in ArxivEntries({1}, {1}) :
       /\ findByArxivId(papers, parseEntry(e).arxivId) = {}
       /\ canUpsert(papers, parseEntry(e))
       /\ papers' = upsertRow(papers, parseEntry(e))
  /\ UNCHANGED <<storeVars, envVars, calls>>

\* The ids of the page the feed route answers a cursor with.
pageOf(cursor) ==
  CHOOSE data \in
    {[papers |-> [n \in 1..Len(r.papers) |-> r.papers[n].id],
      nextCursor |-> r.nextCursor, hasMore |-> r.nextCursor # Null] :
       r \in {getFeedPapers(papers, getSeenPaperIds, cursor, FeedLimit, TRUE)}} : TRUE

\* page.tsx: loadInitialPapers got the answer of /api/feed?refresh=true and
\* renders ScrollFeed with initialPapers = data.papers.
loadInitialPapers ==
  /\ ~client.scroll.mounted
  /\ papers # <<>>
  /\ \E data \in {pageOf(Null)} :
       client' = [client EXCEPT !.scroll =
         [NoScroll EXCEPT !.mounted = TRUE, !.papers = data.papers]]
  /\ UNCHANGED clientFrame

\* loadMore up to its fetch: the early return, setIsLoading(true), the
\* request with the cursor of the state.
loadMore ==
  /\ client.scroll.mounted /\ client.scroll.papers # <<>>
  /\ ~client.scroll.isLoading /\ client.scroll.hasMore
  /\ client' = [client EXCEPT !.scroll.isLoading = TRUE,
                              !.scroll.loading = @ + 1,
                              !.scroll.sent = Some(client.scroll.cursor)]
  /\ UNCHANGED clientFrame

\* The answer is ok: the page is appended, cursor and hasMore are taken from
\* it; finally setIsLoading(false).
loadMoreAnswered ==
  /\ client.scroll.loading > 0
  /\ Len(client.scroll.papers) + FeedLimit <= MaxListed
  /\ \E data \in {pageOf(client.scroll.sent[1])} :
        client' = [client EXCEPT !.scroll.papers = @ \o data.papers,
                                 !.scroll.cursor = data.nextCursor,
                                 !.scroll.hasMore = data.hasMore,
                                 !.scroll.isLoading = FALSE,
                                 !.scroll.loading = @ - 1]
  /\ UNCHANGED clientFrame

\* The answer is not ok, or the fetch threw.
loadMoreFailed ==
  /\ client.scroll.loading > 0
  /\ client' = [client EXCEPT !.scroll.isLoading = FALSE, !.scroll.loading = @ - 1]
  /\ UNCHANGED clientFrame

NextScroll ==
  \/ ScrollIngest
  \/ loadInitialPapers
  \/ loadMore
  \/ loadMoreAnswered
  \/ loadMoreFailed

SpecScroll == Init /\ [][NextScroll]_vars

\* =========================================== the store writes on their own
\* The operations of papers.ts that write the Paper table, applied to a table
\* of up to two papers; probe names the operation and the row it was given.
writeFrame ==
  <<seenPaper, savedPaper, lastUpsert, feed, envVars, calls, request, history, client>>

WrittenSummaries == {SummaryOf(1), SummaryOf(2)}

WrittenFigures ==
  LET figures == parseFiguresFromHtml(Ar5ivPage3, <<"2401.0000", "1">>)
  IN {[figures |-> <<>>, selectedFigure |-> Null, error |-> Null],
      [figures |-> <<>>, selectedFigure |-> Null, error |-> Some(<<"ar5iv returned 500">>)],
      [figures |-> figures, selectedFigure |-> Null, error |-> Null],
      [figures |-> figures,
       selectedFigure |-> Some(withReason(figures[1], <<"First figure">>)),
       error |-> Null]}

WriteUpsert ==
  \E b \in 1..2, r \in 1..2 :
    LET arxivPaper == parseEntry(ArxivEntry(b, 1, r))
    IN /\ papers' = upsertRow(papers, arxivPaper)
       /\ probe' = [fn |-> "upsertPaper",
                    id |-> Min(findByArxivId(papers', arxivPaper.arxivId))]
       /\ UNCHANGED writeFrame

WriteSummary ==
  \E id \in 1..Len(papers), summary \in WrittenSummaries :
    /\ papers' = updatePaperSummaryRow(papers, id, summary)
    /\ probe' = [fn |-> "updatePaperSummary", id |-> id]
    /\ UNCHANGED writeFrame

WriteDeepSummary ==
  \E id \in 1..Len(papers) :
    /\ papers' = updatePaperDeepSummaryRow(papers, id, DeepSummaryOf(1))
    /\ probe' = [fn |-> "updatePaperDeepSummary", id |-> id]
    /\ UNCHANGED writeFrame

WriteFigures ==
  \E id \in 1..Len(papers), written \in WrittenFigures :
    /\ papers' = updatePaperFiguresRow(papers, id, written.figures,
                                       written.selectedFigure, written.error)
    /\ probe' = [fn |-> "updatePaperFigures", id |-> id]
    /\ UNCHANGED writeFrame

NextWrites ==
  \/ WriteUpsert
  \/ WriteSummary
  \/ WriteDeepSummary
  \/ WriteFigures

SpecWrites == Init /\ [][NextWrites]_vars

\* ================================================================ claims

\* ---------------------------------------------------------------- C1
UniqueArxivId(db) ==
  \A i, j \in 1..Len(db) : db[i].arxivId = db[j].arxivId => i = j

\* C1: after any sequence of upserts the table holds at most one row per
\* arxivId; an upsert of a stored arxivId writes the new title, authors,
\* abstract, categories, publication date and pdf URL into that row, adds no
\* row, and returns the internal id the row already had.
C1_UpsertKeepsOneRowPerArxivId ==
  [][ /\ UniqueArxivId(papers')
      /\ lastUpsert' # lastUpsert =>
           LET arg == lastUpsert'[1].arg
               result == lastUpsert'[1].result
               old == findByArxivId(papers, arg.arxivId)
           IN /\ result.id \in 1..Len(papers')
              /\ LET row == toPaper(papers'[result.id])
                 IN /\ row.arxivId = arg.arxivId
                    /\ row.title = arg.title
                    /\ row.authors = arg.authors
                    /\ row.abstract = arg.abstract
                    /\ row.categories = arg.categories
                    /\ row.publishedDate = arg.publishedDate
                    /\ row.pdfUrl = arg.pdfUrl
                    /\ result = row
              /\ old # {} => /\ result.id = papers[Min(old)].id
                             /\ Len(papers') = Len(papers)
    ]_vars

\* The last upsert carried second-state metadata and returned a row older
\* than the newest one: it updated a stored record.
C1_Witness ==
  /\ lastUpsert # Null
  /\ lastUpsert[1].result.id < Len(papers)
  /\ \E e \in ArxivEntries(1..MaxVersion, {2}) : lastUpsert[1].arg = parseEntry(e)
  /\ toPaper(papers[lastUpsert[1].result.id]).title = lastUpsert[1].arg.title

\* ---------------------------------------------------------------- C2
\* C2: a later arXiv revision of a stored paper (entry id with another
\* version suffix) is ingested into the existing record: no two rows are
\* revisions of one paper.
C2_RevisionUpdatesStoredRecord ==
  \A i, j \in 1..Len(papers) :
    cleanId(papers[i].arxivId) = cleanId(papers[j].arxivId) => i = j

\* ---------------------------------------------------------------- C3
PageIds(page) == {page[k].id : k \in 1..Len(page)}

RECURSIVE WalkFeed(_, _, _)
WalkFeed(cursor, limit, fuel) ==
  LET r == getFeedPapers(papers, getSeenPaperIds, cursor, limit, TRUE)
  IN IF r.nextCursor = Null \/ fuel = 0 THEN <<r>>
     ELSE <<r>> \o WalkFeed(r.nextCursor, limit, fuel - 1)

RECURSIVE Concat(_)
Concat(pages) ==
  IF pages = <<>> THEN <<>> ELSE Head(pages).papers \o Concat(Tail(pages))

\* C4: on an unchanged store, each page requested with the previous
\* nextCursor shares no paper with the earlier pages and continues the
\* descending publication-date order; nextCursor is the id of the last paper
\* of its page; the walk ends with a page without nextCursor.
C4_CursorPaging ==
  \A limit \in 1..FeedLimit :
    LET walk == WalkFeed(Null, limit, MaxPapers + 1)
        all == Concat(walk)
    IN /\ \A a, b \in 1..Len(all) : all[a].id = all[b].id => a = b
       /\ \A a, b \in 1..Len(all) : a < b => all[a].publishedDate >= all[b].publishedDate
       /\ \A n \in 1..Len(walk) :
            walk[n].nextCursor # Null =>
              /\ walk[n].papers # <<>>
              /\ walk[n].nextCursor = Some(walk[n].papers[Len(walk[n].papers)].id)
       /\ walk[Len(walk)].nextCursor = Null

\* Three unmarked papers, two of them of equal date: page size 2 gives a full
\* first page and a last page of one.
C4_Witness ==
  /\ Len(papers) = 3
  /\ seenPaper = {}
  /\ LET walk == WalkFeed(Null, 2, MaxPapers + 1)
     IN /\ Len(walk) = 2
        /\ Len(walk[1].papers) = 2
        /\ walk[1].nextCursor = Some(walk[1].papers[2].id)
        /\ Len(walk[2].papers) = 1
        /\ walk[2].nextCursor = Null

\* ---------------------------------------------------------------- C5
\* The unmarked papers that come after the cursor row in feed order (all
\* unmarked papers without a cursor).
RemainingAfter(cursor) ==
  LET all == orderBy(papers, 1..Len(papers))
      pos == IF cursor = Null THEN 0
             ELSE Min({k \in 1..Len(all) : all[k] = cursor[1]})
  IN {k \in (pos + 1)..Len(all) : ~isPaperSeen(all[k])}

\* C5: whenever at least limit papers without a SeenMark remain after the
\* cursor, the page holds exactly limit papers.
C5_ExactPageSize ==
  \A limit \in 1..FeedLimit :
    \A cursor \in {Null} \cup {Some(i) : i \in 1..Len(papers)} :
      Cardinality(RemainingAfter(cursor)) >= limit
        => Len(getFeedPapers(papers, getSeenPaperIds, cursor, limit, TRUE).papers) = limit

\* ---------------------------------------------------------------- C6
needsFetch(f) == f.refresh \/ f.cursor = Null

\* C6: when the page query of a refresh or cursor-less request runs, exactly
\* one arXiv fetch has been made and every fetched paper is stored, so a
\* first page holds each fetched unmarked paper unless it is full of papers
\* at least as recent; a request with a cursor and without refresh fetches
\* nothing and never changes the Paper table.
C6_FetchAndUpsertBeforePage ==
  [][ /\ (feed.pc = "query" /\ feed'.pc = "done" /\ needsFetch(feed)) =>
           /\ feed.fetches = 1
           /\ feed.pending = {}
           /\ \A arxivPaper \in feed.fetched :
                LET hit == findByArxivId(papers, arxivPaper.arxivId)
                    page == feed'.response[1].papers
                IN /\ hit # {}
                   /\ papers[Min(hit)].title = arxivPaper.title
                   /\ (feed.cursor = Null /\ Min(hit) \notin feed.seenIds) =>
                        \/ Min(hit) \in PageIds(page)
                        \/ /\ Len(page) = FeedLimit
                           /\ \A k \in 1..Len(page) :
                                page[k].publishedDate >= arxivPaper.publishedDate
      /\ (feed.pc # "idle" /\ ~needsFetch(feed)) =>
           /\ papers' = papers
           /\ feed.fetches = 0
           /\ feed'.fetches = 0
    ]_vars

\* A refresh request answered after one fetch with a page of stored papers.
C6_Witness ==
  /\ feed.pc = "done"
  /\ feed.refresh
  /\ feed.fetches = 1
  /\ feed.response[1].status = 200
  /\ Len(papers) >= 2
  /\ feed.response[1].papers # <<>>

\* ---------------------------------------------------------------- C7
\* The stored hook and summary are both present (non-empty) / the stored
\* deep analysis is present, as the record read back shows them.
hasSummary(row) == Truthy(toPaper(row).hook) /\ Truthy(toPaper(row).summary)
hasDeepSummary(row) == toPaper(row).deepSummary # Null

SummaryFields(row) == <<row.hook, row.keyConcepts, row.summary, row.whyMatters>>

\* The calls of route op that have looked paper id up and not yet answered.
InFlight(op, id) ==
  {c \in 1..NumCalls :
     calls[c].op = op /\ calls[c].pc = "provider" /\ calls[c].paperId = Some(id)}

\* C7 as stated: once hook and summary are both present no step changes
\* hook, keyConcepts, summary or whyMatters, and once deepSummary is present
\* no step changes it, whatever calls are in flight.
C7_WriteOnceInEveryInterleaving ==
  [][ \A id \in 1..Len(papers) :
        /\ hasSummary(papers[id]) => SummaryFields(papers'[id]) = SummaryFields(papers[id])
        /\ hasDeepSummary(papers[id]) => papers'[id].deepSummary = papers[id].deepSummary
    ]_vars

\* C7 amended: a summarize call that looks the paper up once hook and
\* summary are both present does not go on to the provider, and the four
\* summary fields of such a paper change only in the step of a summarize
\* call that had looked the paper up before; the same for deepSummary and
\* deep-summary calls.  Without such an earlier call in flight the fields
\* stay as they are.
C7_WriteOnceForLaterCalls ==
  [][ \A id \in 1..Len(papers) :
        /\ hasSummary(papers[id]) =>
              /\ \A c \in 1..NumCalls :
                    (calls[c].pc = "idle" /\ calls'[c].op = "summarize"
                       /\ calls'[c].paperId = Some(id))
                      => /\ calls'[c].pc = "done"
                         /\ papers' = papers
              /\ SummaryFields(papers'[id]) # SummaryFields(papers[id]) =>
                    \E c \in InFlight("summarize", id) : calls'[c].pc = "done"
        /\ hasDeepSummary(papers[id]) =>
              /\ \A c \in 1..NumCalls :
                    (calls[c].pc = "idle" /\ calls'[c].op = "deep-summary"
                       /\ calls'[c].paperId = Some(id))
                      => /\ calls'[c].pc = "done"
                         /\ papers' = papers
              /\ papers'[id].deepSummary # papers[id].deepSummary =>
                    \E c \in InFlight("deep-summary", id) : calls'[c].pc = "done"
    ]_vars

\* A summarize call has been answered from the stored hook and summary and a
\* deep analysis is stored too.
C7_Witness ==
  \E c \in 1..NumCalls :
    /\ calls[c].pc = "done" /\ calls[c].op = "summarize"
    /\ calls[c].response[1].cached = Some(TRUE)
    /\ hasSummary(papers[calls[c].paperId[1]])
    /\ hasDeepSummary(papers[calls[c].paperId[1]])

\* ---------------------------------------------------------------- C8
\* The fields a route treats as its own are populated.
Populated(op, row) ==
  CASE op = "summarize" -> hasSummary(row)
    [] op = "deep-summary" -> hasDeepSummary(row)
    [] op = "figures" -> toPaper(row).figures # Null \/ toPaper(row).figuresError # Null
    [] OTHER -> FALSE

\* C8: a summarize, deep-summary or figures request for a stored paper whose
\* fields are already populated is answered with the stored record tagged
\* cached = true, without going on to the provider or extractor and without
\* a write.
C8_EnrichedPaperAnsweredFromStore ==
  [][ \A c \in 1..NumCalls :
        (/\ calls[c].pc = "idle" /\ calls'[c].pc # "idle"
         /\ calls'[c].paperId # Null
         /\ calls'[c].paperId[1] \in 1..Len(papers)
         /\ Populated(calls'[c].op, papers[calls'[c].paperId[1]]))
          => /\ calls'[c] = Answer(calls'[c].op, calls'[c].paperId,
                                   Success(toPaper(papers[calls'[c].paperId[1]]), Some(TRUE)))
             /\ papers' = papers
    ]_vars

\* ---------------------------------------------------------------- C9
\* The provider replies that carry every member of a summary.
FullSummaries ==
  {SummaryOf(r) : r \in 1..NumReplies}
  \cup {[SummaryOf(r) EXCEPT !.hook = Some(<<>>)] : r \in 1..NumReplies}

\* The four summary columns as one reply fills them.
StoredSummaryOf(summary) ==
  <<summary.hook, Some(JSONstringify(summary.keyConcepts[1])),
    summary.summary, summary.whyMatters>>

\* The reply parses to a JSON object that has every member of the result
\* type.
ExpectedShape(outcome) ==
  LET parsed == parsedReply(outcome)
  IN /\ parsed.ok
     /\ parsed.value # JsonNull
     /\ \A m \in DOMAIN parsed.value.fields : parsed.value.fields[m] # Null

\* C9: summarize calls that found the paper without hook and ran
\* concurrently answer with success whenever the provider replied with a
\* summary, and once they have all finished the hook, keyConcepts, summary
\* and whyMatters of the record come from one and the same provider reply:
\* never a mix of two replies, never a part of one.
C9_ConcurrentSummarizeOneReply ==
  /\ \A c \in 1..NumCalls :
        (/\ calls[c].op = "summarize" /\ calls[c].pc = "done"
         /\ calls[c].reply # Null
         /\ ExpectedShape(calls[c].reply[1]))
          => calls[c].response[1].status = 200
  /\ \A id \in 1..Len(papers) :
        InFlight("summarize", id) = {} =>
          \/ SummaryFields(papers[id]) = <<Null, Null, Null, Null>>
          \/ \E summary \in FullSummaries :
                SummaryFields(papers[id]) = StoredSummaryOf(summary)

\* ---------------------------------------------------------------- C10
\* C10: a summarize, deep-summary or figures call whose provider call failed
\* or whose reply is not JSON of the expected shape answers with an error
\* and leaves the Paper table as it was.
C10_BadReplyFailsWithoutWrite ==
  [][ \A c \in 1..NumCalls :
        (/\ calls[c].pc \in {"provider", "extract"}
         /\ calls'[c].pc = "done"
         /\ calls'[c].reply # Null
         /\ ~ExpectedShape(calls'[c].reply[1]))
          => /\ calls'[c].response[1].status # 200
             /\ papers' = papers
    ]_vars

\* ---------------------------------------------------------------- C11
Unfetched(paper) ==
  paper.figures = Null /\ paper.figuresError = Null /\ paper.selectedFigure = Null

FetchedWithResults(paper) == paper.figures # Null /\ paper.figuresError = Null

FetchedWithError(paper) ==
  /\ paper.figuresError # Null
  /\ paper.figures = Some(<<>>)
  /\ paper.selectedFigure = Null

\* C11: every paper record is in exactly one of the figure states unfetched,
\* fetched-with-results and fetched-with-error; none has a figuresError
\* together with a non-empty figure list or a selected figure.
C11_ThreeFigureStates ==
  \A id \in 1..Len(papers) :
    LET paper == toPaper(papers[id])
    IN /\ Cardinality({k \in 1..3 :
                         \/ k = 1 /\ Unfetched(paper)
                         \/ k = 2 /\ FetchedWithResults(paper)
                         \/ k = 3 /\ FetchedWithError(paper)}) = 1
       /\ paper.figuresError # Null =>
            /\ paper.figures \in {Null, Some(<<>>)}
            /\ paper.selectedFigure = Null

\* A figures call has answered after storing an extraction error.
C11_Witness ==
  \E c \in 1..NumCalls :
    /\ calls[c].pc = "done" /\ calls[c].op = "figures"
    /\ calls[c].response[1].status = 200
    /\ calls[c].response[1].error # Null
    /\ FetchedWithError(toPaper(papers[calls[c].paperId[1]]))

\* ---------------------------------------------------------------- C12
FigureFields(row) == <<row.figures, row.selectedFigure, row.figuresError>>

\* The figures calls that have looked paper id up and not yet answered.
Extracting(id) ==
  {c \in 1..NumCalls :
     calls[c].op = "figures" /\ calls[c].pc = "extract" /\ calls[c].paperId = Some(id)}

\* A figures request for paper id is answered from the store, without a
\* write.
FiguresAnsweredFromStore(id) ==
  \A c \in 1..NumCalls :
    (calls[c].pc = "idle" /\ calls'[c].op = "figures" /\ calls'[c].paperId = Some(id))
      => /\ calls'[c] = Answer("figures", Some(id), Success(toPaper(papers[id]), Some(TRUE)))
         /\ papers' = papers

\* C12 as stated: once an extraction error is stored for a paper, every
\* figures request for it is answered from the store with cached = true and
\* no step changes figures, selectedFigure or figuresError of the paper.
C12_ExtractionErrorIsTerminal ==
  [][ \A id \in 1..Len(papers) :
        papers[id].figuresError # Null =>
          /\ FiguresAnsweredFromStore(id)
          /\ FigureFields(papers'[id]) = FigureFields(papers[id])
    ]_vars

\* C12 amended: once an extraction error is stored for a paper, every
\* figures request that looks the paper up is answered from the store with
\* cached = true and without a write, and the figure fields of the paper
\* change only in the step of a figures call that had looked the paper up
\* before the error was stored.
C12_ExtractionErrorTerminalForLaterCalls ==
  [][ \A id \in 1..Len(papers) :
        papers[id].figuresError # Null =>
          /\ FiguresAnsweredFromStore(id)
          /\ FigureFields(papers'[id]) # FigureFields(papers[id]) =>
                \E c \in Extracting(id) : calls'[c].pc = "done"
    ]_vars

\* A figures request has been answered from a stored extraction error.
C12_Witness ==
  \E c \in 1..NumCalls :
    /\ calls[c].pc = "done" /\ calls[c].op = "figures"
    /\ calls[c].response[1].cached = Some(TRUE)
    /\ FetchedWithError(toPaper(papers[calls[c].paperId[1]]))

\* ---------------------------------------------------------------- C13
\* The figures calls that have just stored an extraction result.
StoredFigures ==
  {c \in 1..NumCalls :
     /\ calls[c].pc = "done" /\ calls[c].op = "figures"
     /\ calls[c].response[1].status = 200
     /\ calls[c].response[1].cached = Some(FALSE)}

\* C13: without a configured provider a figures call that extracted a
\* non-empty figure list stores as selected figure the first extracted
\* figure with reason "First figure", and stores no selected figure when
\* the list is empty.
C13_FirstFigureWithoutProvider ==
  \A c \in StoredFigures :
    ~isAIConfigured =>
      LET row == papers[calls[c].paperId[1]]
          figures == JSONparse(row.figures[1])
      IN /\ calls[c].response[1].paper[1] = toPaper(row)
         /\ IF figures # <<>>
            THEN /\ row.selectedFigure # Null
                 /\ JSONparse(row.selectedFigure[1]) =
                      [url |-> figures[1].url, caption |-> figures[1].caption,
                       index |-> figures[1].index, reason |-> <<"First figure">>]
                 /\ figures[1].index = 1
            ELSE row.selectedFigure = Null

\* Without a provider a call has stored two figures and selected the first.
C13_Witness ==
  \E c \in StoredFigures :
    /\ ~isAIConfigured
    /\ Len(JSONparse(papers[calls[c].paperId[1]].figures[1])) >= 2
    /\ papers[calls[c].paperId[1]].selectedFigure # Null

\* ---------------------------------------------------------------- C14
\* The applications of selectBestFigure to a non-empty list in which the
\* provider returned an index.
SelectedByIndex ==
  /\ probe.fn = "selectBestFigure" /\ probe.result # Null
  /\ probe.figures # <<>>
  /\ parsedReply(probe.outcome).ok
  /\ parsedReply(probe.outcome).value # JsonNull
  /\ parsedReply(probe.outcome).value.fields.selectedIndex # Null

\* C14: for a figure list of length N and every index returned by the
\* provider, selectBestFigure returns null when the index is 0 or outside
\* 1..N and otherwise the figure at position index - 1 with the provider's
\* reason; it never returns a selection that lacks a figure.
C14_SelectionWithinList ==
  SelectedByIndex =>
    LET reply == parsedReply(probe.outcome).value.fields
        index == reply.selectedIndex[1]
        returned == probe.result[1]
    IN /\ ~returned.threw
       /\ IF index \in 1..Len(probe.figures)
          THEN returned.value = Some(withReason(probe.figures[index], reply.reason))
          ELSE returned.value = Null

\* ---------------------------------------------------------------- C15
Extracted == probe.fn = "extractFiguresFromAr5iv" /\ probe.result # Null

\* C15: for every outcome of the fetch extractFiguresFromAr5iv returns a
\* result and throws nothing: a figure list without error for a 2xx answer,
\* an empty list with an error string otherwise; the error of a 404 is
\* "ar5iv rendering not available", that of any other non-2xx status names
\* the status.
C15_ExtractorNeverThrows ==
  Extracted =>
    LET fetched == probe.fetched
        result == probe.result[1]
    IN /\ DOMAIN result = {"figures", "error"}
       /\ \/ result.error = Null
          \/ result.error # Null /\ result.figures = <<>>
       /\ (fetched.kind = "response" /\ fetched.status \in 200..299) =>
            /\ result.error = Null
            /\ result.figures = parseFiguresFromHtml(fetched.html, cleanId(probe.arxivId))
       /\ (fetched.kind = "response" /\ fetched.status = 404) =>
            result.error = Some(<<"ar5iv rendering not available">>)
       /\ (fetched.kind = "response" /\ fetched.status \notin (200..299) \cup {404}) =>
            result.error = Some(<<"ar5iv returned ", ToString(fetched.status)>>)
       /\ fetched.kind # "response" => result.error # Null

\* The extractor has turned a network exception into the error channel.
C15_Witness ==
  /\ Extracted
  /\ probe.fetched.kind = "throw"
  /\ probe.result[1].error = Some(probe.fetched.message)
  /\ probe.result[1].figures = <<>>

\* ---------------------------------------------------------------- C16
Parsed == probe.fn = "parseFiguresFromHtml" /\ probe.result # Null

\* The positions of the blocks of a page that contain an image.
ImageBlocks(html) == {k \in 1..Len(html) : html[k].img # Null}

\* C16: parseFiguresFromHtml returns one figure per block that contains an
\* image, in document order, numbered 1..n; a block without image is
\* skipped and consumes no index, and a block without caption gets the
\* caption "Figure k", k being its own index.
C16_OneFigurePerImageBlock ==
  Parsed =>
    LET html == probe.html
        figures == probe.result[1]
    IN /\ Len(figures) = Cardinality(ImageBlocks(html))
       /\ \A n \in 1..Len(figures) :
            LET k == CHOOSE k \in ImageBlocks(html) :
                       Cardinality({j \in ImageBlocks(html) : j <= k}) = n
            IN /\ figures[n].index = n
               /\ figures[n].url = absoluteUrl(html[k].img[1], probe.arxivId)
               /\ html[k].caption = Null =>
                    figures[n].caption = <<"Figure ", ToString(n)>>
               /\ html[k].caption # Null =>
                    figures[n].caption = stripHtml(html[k].caption[1])

\* Two blocks with image around one without: exactly figures 1 and 2, the
\* second with its default caption.
C16_Witness ==
  /\ Parsed
  /\ probe.html = Ar5ivPage3
  /\ Len(probe.result[1]) = 2
  /\ probe.result[1][1].index = 1
  /\ probe.result[1][2].index = 2
  /\ probe.result[1][2].caption = <<"Figure ", "2">>

\* ---------------------------------------------------------------- C17
\* C17: when arXiv answers the fetch of a refresh or cursor-less feed
\* request with a non-success status, fetchFromArxiv throws an error that
\* carries the status after this one attempt, the request is answered with
\* status 500, and the request has not created or modified a paper record.
C17_UpstreamFailureAnswers500 ==
  [][ (/\ feed.pc = "fetch"
       /\ feed'.upstream # Null
       /\ feed'.upstream[1] \notin 200..299)
        => /\ needsFetch(feed)
           /\ feed.fetches = 0 /\ feed'.fetches = 1
           /\ feed.fetched = {} /\ feed.pending = {}
           /\ feed'.pc = "done"
           /\ feed'.response[1].status = 500
           /\ feed'.response[1].thrown =
                <<"arXiv API error: ", ToString(feed'.upstream[1])>>
           /\ papers' = papers
    ]_vars

\* A refresh request on a non-empty store has been answered 500 after arXiv
\* returned 503.
C17_Witness ==
  /\ feed.pc = "done"
  /\ feed.refresh
  /\ feed.upstream = Some(503)
  /\ feed.response[1].status = 500
  /\ feed.fetches = 1
  /\ papers # <<>>

\* ------------------------------------------------------------------ C18
Answered(q) == request[q].pc = "done" /\ request[q].response # Null

unknownPaper(id) == id \notin 1..Len(papers)

recognised(action) == action # Null /\ action[1] \in PaperActions

\* C18: a paper route answers 400 when the action of the body is missing or
\* unrecognised, and 404 when the id of the path is not the id of a stored
\* paper, on the detail GET and on the action POST alike; it never answers an
\* unknown id with 200 or 500.
C18_PaperRoutesDistinguishFailures ==
  \A q \in 1..NumRequests :
    Answered(q) =>
      LET req == request[q]
          status == req.response[1].status
      IN /\ (req.route = "paper GET" /\ unknownPaper(req.id)) => status = 404
         /\ (req.route = "paper POST" /\ ~recognised(req.action))
              => status \in {400, 404}
         /\ (req.route = "paper POST" /\ recognised(req.action)
               /\ unknownPaper(req.id)) => status = 404

\* ------------------------------------------------------------------ C19
\* The marks of every stored paper are those its last actions left.
MarksFollowLastAction ==
  \A id \in 1..Len(papers) :
    /\ isPaperSaved(id) <=> history[id].save = "save"
    /\ isPaperDiscarded(id) <=> history[id].discard = "discard"

\* The SeenPaper table holds at most one row per paper (SavedPaper is the set
\* of its paper ids, by its unique index on paperId).
SingleMark == \A m1, m2 \in seenPaper : m1.paperId = m2.paperId => m1 = m2

\* Request q is an action POST that answers 200 in this step.
Acts(q) ==
  /\ request[q].pc = "idle"
  /\ request'[q].route = "paper POST" /\ request'[q].pc = "done"
  /\ request'[q].response[1].status = 200

\* C19: for a stored paper the detail GET reads saved = TRUE exactly when the
\* last save/unsave was save and discarded = TRUE exactly when the last
\* discard/undiscard was discard, and reports what it read; a repeated action
\* keeps one mark per paper; unsave and undiscard without a mark answer 200
\* and change nothing; save and unsave leave the SeenPaper table alone, and
\* discard and undiscard leave the SavedPaper table alone.
C19_MarksFollowLastActions ==
  [][ /\ MarksFollowLastAction' /\ SingleMark'
      /\ \A q \in 1..NumRequests :
           /\ (request[q].pc = "saved" /\ request'[q].pc = "discarded")
                => request'[q].saved = (history[request[q].id].save = "save")
           /\ (request[q].pc = "discarded" /\ request'[q].pc = "done")
                => LET response == request'[q].response[1]
                   IN /\ response.status = 200
                      /\ response.saved = request[q].saved
                      /\ response.discarded
                           = (history[request[q].id].discard = "discard")
           /\ (request[q].pc = "idle" /\ request'[q].route = "paper POST"
                 /\ recognised(request'[q].action)
                 /\ ~unknownPaper(request'[q].id))
                => Acts(q)
           /\ Acts(q) =>
                LET id == request'[q].id
                    action == request'[q].action[1]
                IN /\ action \in {"save", "unsave"} => seenPaper' = seenPaper
                   /\ action \in {"discard", "undiscard"} => savedPaper' = savedPaper
                   /\ (action = "unsave" /\ ~isPaperSaved(id))
                        => savedPaper' = savedPaper
                   /\ (action = "undiscard" /\ ~isPaperSeen(id))
                        => seenPaper' = seenPaper
                   /\ (action = "save" /\ isPaperSaved(id))
                        => savedPaper' = savedPaper
                   /\ (action = "discard" /\ isPaperDiscarded(id))
                        => seenPaper' = seenPaper ]_vars

\* A detail GET has reported a paper both saved and discarded after the
\* actions save and discard.
C19_Witness ==
  \E q \in 1..NumRequests :
    /\ Answered(q) /\ request[q].route = "paper GET"
    /\ request[q].response[1].status = 200
    /\ request[q].response[1].saved /\ request[q].response[1].discarded
    /\ history[request[q].id].save = "save"
    /\ history[request[q].id].discard = "discard"

\* ------------------------------------------------------------------ C20
\* The key of the probe is assigned by a line of the file.
DefinedInFile(content, key) ==
  \E i \in 1..Len(content) :
    /\ parseEnvLine(content[i]) # Null
    /\ parseEnvLine(content[i])[1].key = <<key>>

\* C20: getEnv returns the value the .env file gives a key whenever a line
\* of the file defines the key (an empty value and no value counting as the
\* same answer), and the value of the process environment only when no line
\* does.
C20_EnvFileTakesPrecedence ==
  (probe.fn = "getEnv" /\ probe.result # Null) =>
    LET answer == probe.result[1]
    IN IF DefinedInFile(probe.content, probe.key)
       THEN \/ answer = envFile[probe.key]
            \/ ~Truthy(answer) /\ ~Truthy(envFile[probe.key])
       ELSE answer = processEnv[probe.key]

\* ------------------------------------------------------------------ C21
\* The figures calls that stored figures after the selection by the provider
\* threw (the call failed, or its reply did not parse to an object).
SelectionThrew ==
  {c \in StoredFigures :
     /\ calls[c].reply # Null
     /\ selectBestFigure(JSONparse(papers[calls[c].paperId[1]].figures[1]),
                         calls[c].reply[1]).threw}

\* C21: with a provider configured, a figures call whose extraction found
\* figures and whose selection threw answers 200 and has stored the whole
\* extracted list, the first figure as selected figure with reason
\* "First figure", and no figuresError.
C21_SelectionFailureFallsBack ==
  \A c \in SelectionThrew :
    LET row == papers[calls[c].paperId[1]]
        figures == JSONparse(row.figures[1])
    IN /\ isAIConfigured
       /\ figures = parseFiguresFromHtml(Ar5ivPage3, cleanId(row.arxivId))
       /\ row.selectedFigure # Null
       /\ JSONparse(row.selectedFigure[1]) = withReason(figures[1], <<"First figure">>)
       /\ figures[1].index = 1
       /\ row.figuresError = Null
       /\ calls[c].response[1].paper = Some(toPaper(row))
       /\ calls[c].response[1].error = Null

\* The provider call itself failed and two figures were stored.
C21_Witness ==
  \E c \in SelectionThrew :
    /\ calls[c].reply[1] = Threw
    /\ Len(JSONparse(papers[calls[c].paperId[1]].figures[1])) >= 2
    /\ papers[calls[c].paperId[1]].selectedFigure # Null

\* ------------------------------------------------------------------ C22
\* The provider was asked to interpret the query of request q.
Interpreted(q) == request[q].route = "search" /\ request[q].reply # Null

\* interpretSearch threw for request q, or its result was null.
InterpretationFailed(q) ==
  /\ Interpreted(q)
  /\ LET parsed == parsedReply(request[q].reply[1])
     IN ~parsed.ok \/ parsed.value = JsonNull

\* The explanation the provider supplied to request q, if any.
SuppliedExplanation(q) ==
  IF Interpreted(q) /\ ~InterpretationFailed(q)
  THEN parsedReply(request[q].reply[1]).value.fields.explanation
  ELSE Null

\* C22: a search whose interpretation failed sends arXiv the raw query with
\* white space replaced, no category filter and sortBy relevance; it fails
\* only when arXiv fails, and otherwise answers 200 with the upserted papers,
\* which are in the store, and no interpretation.  Every search response has
\* an interpretation only when the provider supplied an explanation.
C22_SearchSurvivesInterpretation ==
  \A q \in 1..NumRequests :
    /\ InterpretationFailed(q) =>
         /\ request[q].sent # Null =>
              request[q].sent[1] =
                [search_query |-> <<"all:">> \o plusForSpaces(request[q].query[1].text),
                 sortBy |-> "relevance"]
         /\ Answered(q) =>
              LET response == request[q].response[1]
              IN IF response.status = 200
                 THEN /\ response.interpretation = Null
                      /\ request[q].sent # Null
                      /\ \A paper \in response.papers :
                           /\ paper.id \in 1..Len(papers)
                           /\ paper = toPaper(papers[paper.id])
                 ELSE /\ response.status = 500
                      /\ response.thrown \in {f.thrown : f \in ArxivFailures}
    /\ (Answered(q) /\ request[q].route = "search"
          /\ request[q].response[1].status = 200)
         => (request[q].response[1].interpretation # Null
               <=> Truthy(SuppliedExplanation(q)))

\* A search whose interpretation failed has answered with upserted papers.
C22_Witness ==
  \E q \in 1..NumRequests :
    /\ InterpretationFailed(q) /\ Answered(q)
    /\ request[q].response[1].status = 200
    /\ request[q].response[1].papers # {}

\* ------------------------------------------------------------------ C23
\* C23: a card sends a summarize request only in a render in which it is
\* active or flagged for prefetch and its paper has no hook, and a figures
\* request only in such a render in which its paper has neither selected
\* figure nor figures error; it has at most one request of each kind in
\* flight; a step of one card changes nothing of another card.
C23_CardRequestsGuarded ==
  [][ \A k \in Cards :
        LET card == client.cards[k]
            after == client'.cards[k]
        IN /\ after.summarizing > card.summarizing =>
                /\ card.isActive \/ card.shouldPrefetch
                /\ ~present(card.summarizedPaper.hook)
                /\ card.summarizing = 0
           /\ after.fetching > card.fetching =>
                /\ card.isActive \/ card.shouldPrefetch
                /\ ~presentObject(card.summarizedPaper.selectedFigure)
                /\ ~present(card.summarizedPaper.figuresError)
                /\ card.fetching = 0
           /\ after.summarizing <= 1 /\ after.fetching <= 1
           /\ after # card =>
                \A other \in Cards \ {k} : client'.cards[other] = client.cards[other]
    ]_vars

\* Both cards have a summarize request in flight, the card in view a figures
\* request as well.
C23_Witness ==
  /\ client.cards["active"].summarizing = 1
  /\ client.cards["active"].fetching = 1
  /\ client.cards["next"].summarizing = 1
  /\ client.cards["next"].shouldPrefetch

\* ------------------------------------------------------------------ C24
\* The number of pages of the walk that returned the paper.
TimesShown(paperId) ==
  Cardinality({n \in 1..Len(client.walk.shown) : client.walk.shown[n] = paperId})

\* C24: when a walk that follows nextCursor has received its last page,
\* every stored paper that carries no SeenMark has been returned exactly
\* once, whatever shown papers were discarded between the page requests.
C24_WalkShowsUnmarkedOnce ==
  client.walk.pc = "done" =>
    \A paperId \in 1..Len(papers) : ~isPaperSeen(paperId) => TimesShown(paperId) = 1

\* ------------------------------------------------------------------ C25
\* C25: the list of ScrollFeed holds no paper id twice; at most one loadMore
\* request is in flight, and none is sent once hasMore is false.
C25_ListedOnce ==
  LET listed == client.scroll.papers
  IN /\ \A a, b \in 1..Len(listed) : listed[a] = listed[b] => a = b
     /\ client.scroll.loading <= 1
     /\ client.scroll.loading = 1 => client.scroll.hasMore

\* ------------------------------------------------------------------ C26
Bibliographic(row) ==
  <<row.id, row.arxivId, row.title, row.authors, row.abstract, row.categories,
    row.publishedDate, row.pdfUrl>>

SummaryGroup(row) == <<row.hook, row.keyConcepts, row.summary, row.whyMatters>>

FiguresGroup(row) == <<row.figures, row.selectedFigure, row.figuresError>>

\* C26: upsertPaper leaves the summary columns, deepSummary and the figures
\* columns of every stored row as they were; updatePaperSummary,
\* updatePaperDeepSummary and updatePaperFigures change nothing but their
\* own columns of their own row; no write removes a row or changes the id or
\* the arxivId of one.
C26_WritesKeepTheirFieldGroup ==
  [][ /\ Len(papers') >= Len(papers)
      /\ \A i \in 1..Len(papers) :
           LET row == papers[i]
               after == papers'[i]
               own == probe'.fn # "none" /\ probe'.id = i
           IN /\ after.id = row.id /\ after.arxivId = row.arxivId
              /\ ~own => after = row
              /\ probe'.fn = "upsertPaper" =>
                   /\ SummaryGroup(after) = SummaryGroup(row)
                   /\ after.deepSummary = row.deepSummary
                   /\ FiguresGroup(after) = FiguresGroup(row)
              /\ probe'.fn = "updatePaperSummary" =>
                   /\ Bibliographic(after) = Bibliographic(row)
                   /\ after.deepSummary = row.deepSummary
                   /\ FiguresGroup(after) = FiguresGroup(row)
              /\ probe'.fn = "updatePaperDeepSummary" =>
                   /\ Bibliographic(after) = Bibliographic(row)
                   /\ SummaryGroup(after) = SummaryGroup(row)
                   /\ FiguresGroup(after) = FiguresGroup(row)
              /\ probe'.fn = "updatePaperFigures" =>
                   /\ Bibliographic(after) = Bibliographic(row)
                   /\ SummaryGroup(after) = SummaryGroup(row)
                   /\ after.deepSummary = row.deepSummary ]_vars

\* A fully enriched paper has been upserted again with the revised entry.
C26_Witness ==
  /\ probe.fn = "upsertPaper"
  /\ Len(papers) = 2
  /\ LET row == papers[probe.id]
     IN /\ row.title = parseEntry(ArxivEntry(1, 1, 2)).title
        /\ row.hook # Null /\ row.deepSummary # Null /\ row.selectedFigure # Null

\* ------------------------------------------------------------------ C27
\* The selection names a figure of the list by url, caption and index.
SelectsFrom(selected, figures) ==
  /\ {"url", "caption", "index"} \subseteq DOMAIN selected
  /\ \E n \in 1..Len(figures) :
       /\ figures[n].url = selected.url
       /\ figures[n].caption = selected.caption
       /\ figures[n].index = selected.index

\* C27: the selectedFigure of every stored paper is null or one of the
\* figures of the paper's stored list; a paper whose list is null or empty
\* has no selected figure.
C27_SelectedFigureIsStoredFigure ==
  \A i \in 1..Len(papers) :
    papers[i].selectedFigure # Null =>
      /\ papers[i].figures # Null
      /\ SelectsFrom(JSONparse(papers[i].selectedFigure[1]),
                     JSONparse(papers[i].figures[1]))

\* ------------------------------------------------------------------ C28
\* The ids of the rows the query of getFeedPapers returns for a first page
\* large enough for the whole store (toPaper keeps the id of each row).
eligibleIds ==
  LET found == findMany(papers, Len(papers) + 1, Null, 0,
                        IF getSeenPaperIds # {} THEN getSeenPaperIds ELSE {})
  IN {found[k].id : k \in 1..Len(found)}

\* The papers without a mark: not seen, not discarded, and eligible.
Unmarked ==
  {id \in 1..Len(papers) :
     ~isPaperSeen(id) /\ ~isPaperDiscarded(id) /\ id \in eligibleIds}

\* C28: an undiscard action on a stored paper deletes the paper's SeenMark,
\* whether it recorded a discard or only a view: afterwards isPaperSeen and
\* isPaperDiscarded are false, the marks of the other papers are as before,
\* and the query of a feed page large enough for the whole store returns the
\* paper.
C28_UndiscardDeletesMark ==
  [][ \A q \in 1..NumRequests :
        (Acts(q) /\ request'[q].action = Some("undiscard")
           /\ request'[q].id \in 1..Len(papers))
          => /\ seenPaper' = {m \in seenPaper : m.paperId # request'[q].id}
             /\ request'[q].id \in Unmarked' ]_vars

\* An undiscard of a paper that was marked seen and not discarded has been
\* answered while another paper keeps its mark.
C28_Witness ==
  \E q \in 1..NumRequests :
    /\ Answered(q) /\ request[q].route = "paper POST"
    /\ request[q].action = Some("undiscard")
    /\ request[q].response[1].status = 200
    /\ request[q].removed = "seen"
    /\ ~isPaperSeen(request[q].id)
    /\ seenPaper # {}

\* ------------------------------------------------------------------ C29
\* markPaperAsSeen and markPaperAsDiscarded applied to a paper in either
\* order leave it discarded.
EitherOrderDiscards(id) ==
  /\ [paperId |-> id, discarded |-> TRUE]
       \in seenRows(discardedRows(seenPaper, id), id)
  /\ [paperId |-> id, discarded |-> TRUE]
       \in discardedRows(seenRows(seenPaper, id), id)
  /\ [paperId |-> id, discarded |-> FALSE]
       \notin seenRows(discardedRows(seenPaper, id), id)
              \cup discardedRows(seenRows(seenPaper, id), id)

\* C29: while a paper's SeenMark exists its discarded flag only goes from
\* false to true: a step that keeps the mark of a discarded paper keeps it
\* discarded (marking it seen again included), a discard action on a paper
\* marked seen sets the flag, either order of the two marks ends discarded,
\* and a discarded paper is a seen paper in every state.
C29_DiscardedOnlyRises ==
  [][ /\ \A id \in PaperIds :
           /\ (isPaperDiscarded(id) /\ isPaperSeen(id)') => isPaperDiscarded(id)'
           /\ isPaperDiscarded(id)' => isPaperSeen(id)'
           /\ id \in 1..Len(papers) => EitherOrderDiscards(id)'
      /\ \A q \in 1..NumRequests :
           (Acts(q) /\ request'[q].action = Some("discard")
              /\ request'[q].id \in 1..Len(papers))
             => isPaperDiscarded(request[q].id)'
      /\ SingleMark' ]_vars

\* A discard of a paper that was marked seen and not discarded has been
\* answered and the paper is discarded.
C29_Witness ==
  \E q \in 1..NumRequests :
    /\ Answered(q) /\ request[q].route = "paper POST"
    /\ request[q].action = Some("discard")
    /\ request[q].response[1].status = 200
    /\ request[q].removed = "seen"
    /\ isPaperDiscarded(request[q].id)

\* ===================================== feed route GET: ?categories=...
\* searchParams.get("categories")?.split(",") || DEFAULT_CATEGORIES: the
\* parameter left out, and one category.
CategorySets == {DEFAULT_CATEGORIES, <<"cs.LG">>}

\* GET /api/feed?cursor=...&refresh=...&categories=...
FeedGETCategories(cursor, refresh, categories) ==
  /\ feed.pc = "idle"
  /\ feed' = [FeedIdle EXCEPT
                !.pc = IF refresh \/ cursor = Null THEN "fetch" ELSE "seen",
                !.cursor = cursor,
                !.refresh = refresh,
                !.categories = categories,
                !.stillSeen = getSeenPaperIds]
  /\ UNCHANGED <<papers, seenPaper, savedPaper, lastUpsert, envVars, calls, auxVars>>

\* The query (cat:A OR cat:B ...) matches an entry listed in one of the
\* categories.
matchesQuery(entry, categories) ==
  \E i \in 1..Len(entry.category), j \in 1..Len(categories) :
    entry.category[i].term = categories[j]

\* Three papers, each listed in cs.AI alone or in cs.AI and cs.LG.
CategoryEntries == {ArxivEntry(b, 1, r) : b \in {1, 2, 3}, r \in {1, 2}}

\* An answer of the arXiv API to the category query: at most two matching
\* entries with different <id>, few enough to fit the modelled table.
CategoryAnswers(db, categories) ==
  {batch \in SUBSET {e \in CategoryEntries : matchesQuery(e, categories)} :
     /\ Cardinality(batch) <= 2
     /\ \A e1, e2 \in batch : e1.id = e2.id => e1 = e2
     /\ Len(db) + Cardinality({e \in batch :
                      findByArxivId(db, parseEntry(e).arxivId) = {}}) <= MaxPapers}

\* fetchFromArxiv(categories, 20, 0, "submittedDate") answered 2xx.
FeedFetchCategories ==
  /\ feed.pc = "fetch"
  /\ \E batch \in CategoryAnswers(papers, feed.categories) :
       LET arxivPapers == {parseEntry(e) : e \in batch}
       IN feed' = [feed EXCEPT !.pc = IF arxivPapers = {} THEN "seen" ELSE "upsert",
                               !.pending = arxivPapers,
                               !.fetched = arxivPapers,
                               !.fetches = @ + 1]
  /\ UNCHANGED <<papers, seenPaper, savedPaper, lastUpsert, envVars, calls, auxVars>>

CategoriesRequest ==
  \E cursor \in {Null, Some(1)}, refresh \in BOOLEAN, categories \in CategorySets :
    FeedGETCategories(cursor, refresh, categories)

\* The search route stores a paper of any category while no feed request
\* is running: one of the upserts of its upsertPapers.
CategoriesSearchStored ==
  /\ feed.pc = "idle"
  /\ \E e \in CategoryEntries :
       /\ canUpsert(papers, parseEntry(e))
       /\ papers' = upsertRow(papers, parseEntry(e))
  /\ UNCHANGED <<seenPaper, savedPaper, lastUpsert, feed, envVars, calls, auxVars>>

CategoriesMarkSeen == feed.pc = "idle" /\ MarkSeen

NextCategories ==
  \/ CategoriesRequest
  \/ FeedFetchCategories
  \/ FeedFetchFail
  \/ FeedUpsert
  \/ FeedReadSeen
  \/ FeedQuery
  \/ FeedReturn
  \/ CategoriesSearchStored
  \/ CategoriesMarkSeen

SpecCategories == Init /\ [][NextCategories]_vars

\* ------------------------------------------------------------------ C30
\* The ids of the first page of a store: the rows without one of the given
\* marks, newest first, cut to the page size.
firstPageIds(db, seenIds) ==
  LET ordered == orderBy(db, {i \in 1..Len(db) : i \notin seenIds})
  IN SubSeq(ordered, 1, IF Len(ordered) < FeedLimit THEN Len(ordered) ELSE FeedLimit)

\* C30: the page a feed request returns does not depend on its categories
\* parameter: it holds stored papers without a SeenMark only, newest first,
\* and the first page (no cursor) is the newest FeedLimit of all of them,
\* whatever their categories.
C30_PageIgnoresCategories ==
  [][ (feed.pc = "query" /\ feed'.pc = "done")
        => LET page == feed'.response[1].papers
           IN /\ feed'.response[1].status = 200
              /\ \A k \in 1..Len(page) :
                   /\ page[k].id \in 1..Len(papers)
                   /\ page[k].id \notin feed.seenIds
              /\ \A k \in 1..(Len(page) - 1) :
                   page[k].publishedDate >= page[k + 1].publishedDate
              /\ feed.cursor = Null
                   => [k \in 1..Len(page) |-> page[k].id]
                        = firstPageIds(papers, feed.seenIds) ]_vars

\* A page requested for cs.LG has been answered with a paper that is not
\* listed in cs.LG.
C30_Witness ==
  /\ feed.pc = "done" /\ feed.response # Null
  /\ feed.response[1].status = 200
  /\ feed.categories = <<"cs.LG">>
  /\ \E k \in 1..Len(feed.response[1].papers) :
       \A i \in 1..Len(feed.response[1].papers[k].categories) :
         feed.response[1].papers[k].categories[i] # "cs.LG"

====
